---- MODULE Spec2Model ----
(***************************************************************************)
(* A model of the MOR dashboard's own glue code: the VTU field extractor   *)
(* and tag discovery (extract_displacement_components.py), the snapshot    *)
(* assemblers (file_read.py and the import page of streamlit_app.py) and   *)
(* the error metrics (streamlit_app.py, ezyrb_test.py, Visualization.py).  *)
(*                                                                         *)
(* Text is modelled as a sequence of tokens.  A token is either one of the *)
(* fixed phrases the code searches for (a component marker, "deltaT=") or  *)
(* a single character of a tag ("-", ".", a digit).  Python's `in` on      *)
(* strings is substring search over the token sequence; re.search is the   *)
(* leftmost match with greedy quantifiers.                                 *)
(***************************************************************************)
EXTENDS Integers, Sequences, FiniteSets, TLC

VARIABLES
    array_names,   \* mesh.array_names of the VTU file on disk
    readable,      \* whether pv.read(file_path) succeeds
    call,          \* the last extractor-module call: [op, deltaT]
    ret,           \* what that call returned
    zh_scanned,    \* whether that call ran the second (localized) loop
    held           \* a result tuple a caller holds on to, and the tag it was for

VARIABLES
    session_state, \* st.session_state: the data slots of the dashboard session
    vtu,           \* array names of the VTU file of the last import run
    deltats,       \* the tags that run discovered
    status,        \* how that run ended
    runs,          \* import runs so far
    row_tags,      \* per snapshot slot, the tag each stored row was extracted for
    script,        \* the module globals file_read.py leaves behind
    import_pc,     \* where the VTU tab of the import page stands in its run
    temp_files     \* the temporary files of uploads that exist on disk

VARIABLES
    validation_snapshot,  \* the true snapshot of a held-out parameter
    predicted_snapshot,   \* the snapshot the reduced-order model predicts for it
    metric                \* the errors last computed from the two, and where

extractor_vars == <<array_names, readable, call, ret, zh_scanned, held>>

import_vars ==
    <<session_state, vtu, deltats, status, runs, row_tags, script, import_pc, temp_files>>

VARIABLES
    is_cloud,      \* what is_cloud_environment() returns in this process
    request,       \* the visualization request being served: tab, mode, mesh
    pc,            \* where the request's handler stands
    chain,         \* the running call of create_cloud_friendly_plot
    attempts,      \* the rendering functions entered for this request, in order
    shown,         \* the captions of the images st.image displayed for it
    notices        \* the st.warning / st.error messages shown for it

VARIABLES
    press,               \* the button press being served on the prediction page
    run_pc,              \* where its run stands
    iter,                \* the pass of the validation loop, from 1
    calls,               \* the calls into the modelling library made for it
    run_error,           \* the kind of exception that ended it
    run_notice,          \* st.success or st.error, as shown for it
    prediction_results   \* the results the session keeps

metric_vars == <<validation_snapshot, predicted_snapshot, metric>>

viz_vars == <<is_cloud, request, pc, chain, attempts, shown, notices>>

\* The state of the pages other than import and metrics.
predict_vars == <<press, run_pc, iter, calls, run_error, run_notice, prediction_results>>

page_vars == <<viz_vars, predict_vars>>

VARIABLES
    host,          \* what the process runs on: os.name, sys.platform, `which Xvfb`
    os_environ,    \* the names set in os.environ
    detected       \* what the calls of is_cloud_environment returned, in order

env_vars == <<host, os_environ, detected>>

VARIABLES
    result_slots,     \* prediction_results, kfold_results, combined_test_results
    generated_plots,  \* st.session_state.generated_plots, by plot type
    script_run        \* the last run of the script: the page shown, the button pressed

gallery_vars == <<result_slots, generated_plots, script_run>>

VARIABLES
    loaded,             \* the upload the data slots and mesh_data hold, None when cleared
    stored_prediction,  \* the upload prediction_results was computed from
    error_field         \* the error field the error-map tab computed last

stale_vars == <<loaded, stored_prediction, error_field>>

VARIABLES
    error_request,   \* the error field and the settings of an error-map request
    colors           \* the RGBA array built for it, and where

threshold_vars == <<error_request, colors>>

VARIABLES
    sweep_request,          \* the methods selected for the combined sweep
    sweep_pc,               \* where the sweep's run stands
    current_progress,       \* the pairs evaluated so far
    pair_log,               \* what the modelling library did for each pair, in order
    performance_data,       \* the error and fit-time tables of the run
    combined_test_results,  \* the tables the session keeps
    best_combination        \* the recommendation shown for them

sweep_vars ==
    <<sweep_request, sweep_pc, current_progress, pair_log, performance_data,
      combined_test_results, best_combination>>

VARIABLES
    heap,           \* the mesh objects alive between script runs, by identity
    mesh_data,      \* the session's reference to its mesh object, None without one
    viz_request,    \* the last request that touched a mesh
    rendered        \* the mesh the last visualization request drew

mesh_vars == <<heap, mesh_data, viz_request, rendered>>

\* The groups declared after sweep_vars, after threshold_vars, after
\* stale_vars, and after gallery_vars.
after_sweep == <<mesh_vars>>

after_threshold == <<sweep_vars, after_sweep>>

after_stale == <<threshold_vars, after_threshold>>

after_gallery == <<stale_vars, after_stale>>

\* The state of the process outside the pages' data.
other_vars == <<env_vars, gallery_vars, after_gallery>>

vars == <<extractor_vars, import_vars, metric_vars, page_vars, other_vars>>

----------------------------------------------------------------------------
(* Text                                                                    *)

None == <<>>        \* Python's None (no array name / no array / empty dict)

DigitChars == <<"0", "1", "2", "3", "4", "5", "6", "7", "8", "9">>

IsDigit(c) == \E i \in DOMAIN DigitChars : DigitChars[i] = c

DigitValue(c) == (CHOOSE i \in DOMAIN DigitChars : DigitChars[i] = c) - 1

\* needle in haystack  (str.__contains__)
Contains(haystack, needle) ==
    \E i \in 0..(Len(haystack) - Len(needle)) :
        \A j \in 1..Len(needle) : haystack[i + j] = needle[j]

\* number of consecutive digits of s from position i on  (greedy \d+)
RECURSIVE DigitRun(_, _)
DigitRun(s, i) ==
    IF i <= Len(s) /\ IsDigit(s[i]) THEN 1 + DigitRun(s, i + 1) ELSE 0

\* -?\d+ anchored at position i: the length of the match, 0 when none
MatchSignedInt(s, i) ==
    LET sign == IF i <= Len(s) /\ s[i] = "-" THEN 1 ELSE 0
        n    == DigitRun(s, i + sign)
    IN  IF n = 0 THEN 0 ELSE sign + n

\* -?\d+\.\d+ anchored at position i: the length of the match, 0 when none
MatchSignedDecimal(s, i) ==
    LET m == MatchSignedInt(s, i)
        f == IF m > 0 /\ i + m <= Len(s) /\ s[i + m] = "."
             THEN DigitRun(s, i + m + 1) ELSE 0
    IN  IF f = 0 THEN 0 ELSE m + 1 + f

\* The group of pattern1 = r'deltaT=(-?\d+)' or pattern2 = r'deltaT=(-?\d+\.\d+)'
\* anchored at position i: the length of the match, 0 when none
MatchGroup(pattern, s, i) ==
    IF pattern = "pattern1" THEN MatchSignedInt(s, i) ELSE MatchSignedDecimal(s, i)

\* re.search(pattern, s).group(1); None when the pattern matches nowhere.
\* The leftmost position that matches wins.
SearchGroup(pattern, s) ==
    LET hits == {i \in 1..Len(s) : s[i] = "deltaT=" /\ MatchGroup(pattern, s, i + 1) > 0}
    IN  IF hits = {} THEN None
        ELSE LET i == CHOOSE h \in hits : \A g \in hits : h <= g
             IN  SubSeq(s, i + 1, i + MatchGroup(pattern, s, i + 1))

\* float(x) of a tag text, as the exact fraction num/den (den a power of 10)
RECURSIVE DigitsValue(_, _)
DigitsValue(s, acc) ==
    IF s = <<>> THEN acc
    ELSE DigitsValue(Tail(s), 10 * acc + DigitValue(Head(s)))

RECURSIVE Pow10(_)
Pow10(n) == IF n = 0 THEN 1 ELSE 10 * Pow10(n - 1)

float(x) ==
    LET neg  == x # <<>> /\ x[1] = "-"
        body == IF neg THEN Tail(x) ELSE x
        ip   == DigitRun(body, 1)
        fp   == IF ip < Len(body) THEN Len(body) - ip - 1 ELSE 0
        digs == SubSeq(body, 1, ip) \o SubSeq(body, ip + 2, Len(body))
        mag  == DigitsValue(digs, 0)
    IN  [num |-> IF neg THEN 0 - mag ELSE mag, den |-> Pow10(fp)]

FloatLeq(a, b) == a.num * b.den <= b.num * a.den

----------------------------------------------------------------------------
(* extract_displacement_components.py                                      *)

\* The component markers of the two naming conventions.  The localized
\* markers are "X_分量", "Y_分量", "Z_分量", "S_分量" in the source; they are
\* written here in ASCII ("fenliang").
EnglishMarker ==
    [X |-> "Displacement_field,_X-component",
     Y |-> "Displacement_field,_Y-component",
     Z |-> "Displacement_field,_Z-component",
     S |-> "von_Mises_stress"]

LocalizedMarker ==
    [X |-> "X_fenliang", Y |-> "Y_fenliang", Z |-> "Z_fenliang", S |-> "S_fenliang"]

Components == <<"X", "Y", "Z", "S">>     \* the order of the if/elif chain

\* `marker in array_name and f"deltaT={deltaT}" in array_name`
MarkerAndTag(array_name, marker, deltaT) ==
    /\ Contains(array_name, <<marker>>)
    /\ Contains(array_name, <<"deltaT=">> \o deltaT)

\* One pass of an if/elif chain over mesh.array_names: the first branch whose
\* test holds assigns its component; a later array overwrites an earlier one.
RECURSIVE ScanNames(_, _, _, _, _)
ScanNames(names, i, marker, deltaT, found) ==
    IF i > Len(names) THEN found
    ELSE LET name == names[i]
             hit  == {k \in 1..4 : MarkerAndTag(name, marker[Components[k]], deltaT)}
             pick == IF hit = {} THEN found
                     ELSE LET k == CHOOSE h \in hit : \A g \in hit : h <= g
                          IN  (Components[k] :> name) @@ found
         IN  ScanNames(names, i + 1, marker, deltaT, pick)

NameOf(found, c) == IF c \in DOMAIN found THEN found[c] ELSE None

\* mesh.get_array(name): arrays are told apart by their place in the mesh;
\* the array stored at place k is the one-point vector <<k>>.
get_array(names, name) ==
    <<CHOOSE k \in 1..Len(names) : names[k] = name>>

\* FindComponents with the fall-back taken as soon as any one axis is
\* unmatched (`or` for `and` in line 57).
FindComponents_AnyAxisMissing(names, deltaT) ==
    LET en    == ScanNames(names, 1, EnglishMarker, deltaT, <<>>)
        again == \/ NameOf(en, "X") = None
                 \/ NameOf(en, "Y") = None
                 \/ NameOf(en, "Z") = None
    IN  [found |-> IF again THEN ScanNames(names, 1, LocalizedMarker, deltaT, en)
                   ELSE en,
         zh_scanned |-> again]

\* FindComponents with found_components living across calls (line 38 moved to
\* module level): the scan starts from what the previous call matched.
FindComponents_KeepsFound(names, deltaT) ==
    LET prior == IF call.op = "extract" /\ Len(ret) = 6 THEN ret[6] ELSE <<>>
        en    == ScanNames(names, 1, EnglishMarker, deltaT, prior)
        again == /\ NameOf(en, "X") = None
                 /\ NameOf(en, "Y") = None
                 /\ NameOf(en, "Z") = None
    IN  [found |-> IF again THEN ScanNames(names, 1, LocalizedMarker, deltaT, en)
                   ELSE en,
         zh_scanned |-> again]

\* The scan of lines 31-70: the matched names and whether the second loop ran.
FindComponents(names, deltaT) ==
    LET en    == ScanNames(names, 1, EnglishMarker, deltaT, <<>>)
        again == /\ NameOf(en, "X") = None
                 /\ NameOf(en, "Y") = None
                 /\ NameOf(en, "Z") = None
    IN  [found |-> IF again THEN ScanNames(names, 1, LocalizedMarker, deltaT, en)
                   ELSE en,
         zh_scanned |-> again]

\* Lines 80-84 and 119: the tuple returned for the matched names
\* (output_dir=None, visualize=False).
ResultTuple(names, found) ==
    LET data(c) == IF c \in DOMAIN found THEN get_array(names, found[c]) ELSE None
    IN  <<data("X"), data("Y"), data("Z"), data("S"), names, found>>

\* One call: what it returns and whether its second loop ran.
ScanResult(names, scan) ==
    [ret |-> ResultTuple(names, scan.found), zh_scanned |-> scan.zh_scanned]

Extraction(names, can_read, deltaT) ==
    IF ~can_read
    THEN [ret |-> <<None, None, None, None, <<>>>>, zh_scanned |-> FALSE]
    ELSE ScanResult(names, FindComponents(names, deltaT))

extract_displacement_components(names, can_read, deltaT) ==
    Extraction(names, can_read, deltaT).ret

\* The distinct tags collected by lines 234-249.
DeltaTValues(names) ==
    LET tag(name) ==
            LET match1 == SearchGroup("pattern1", name)
                match2 == SearchGroup("pattern2", name)
            IN  IF match1 # None THEN match1
                ELSE IF match2 # None THEN match2
                ELSE None
    IN  {tag(names[i]) : i \in 1..Len(names)} \ {None}

\* sorted(list(S), key=...): every order of S that is ascending in the key
\* (list(set) fixes no order, so equal keys may come out either way).
RECURSIVE Orderings(_)
Orderings(S) ==
    IF S = {} THEN {<<>>}
    ELSE UNION {{<<x>> \o r : r \in Orderings(S \ {x})} : x \in S}

\* Character order of the tag characters ('-' < '.' < '0' < ... < '9').
CharRank(c) == IF c = "-" THEN 0 ELSE IF c = "." THEN 1 ELSE 2 + DigitValue(c)

RECURSIVE StrLeq(_, _)
StrLeq(a, b) ==
    IF a = <<>> THEN TRUE
    ELSE IF b = <<>> THEN FALSE
    ELSE IF Head(a) = Head(b) THEN StrLeq(Tail(a), Tail(b))
    ELSE CharRank(Head(a)) < CharRank(Head(b))

\* SortedByFloat without the key: sorted(list(S)), the order of the strings.
SortedAsStrings(S) ==
    {l \in Orderings(S) : \A i \in 1..(Len(l) - 1) : StrLeq(l[i], l[i + 1])}

SortedByFloat(S) ==
    {l \in Orderings(S) :
        \A i \in 1..(Len(l) - 1) : FloatLeq(float(l[i]), float(l[i + 1]))}

\* The lists list_available_deltats may return.
list_available_deltats(names, can_read) ==
    IF ~can_read THEN {<<>>} ELSE SortedByFloat(DeltaTValues(names))

----------------------------------------------------------------------------
(* streamlit_app.py, the import page, and file_read.py                     *)

\* The session slots as lines 490-512 create them.
NewSession ==
    [snapshots_x |-> None, snapshots_y |-> None, snapshots_z |-> None,
     snapshots_stress |-> None, param |-> None, mesh_data |-> None]

\* The snapshot slots, in the order of the values extraction returns.
SnapshotSlots == <<"snapshots_x", "snapshots_y", "snapshots_z", "snapshots_stress">>

NoRowTags ==
    [snapshots_x |-> <<>>, snapshots_y |-> <<>>, snapshots_z |-> <<>>,
     snapshots_stress |-> <<>>]

\* np.array(list_of_rows): a 2D array, told apart from None and from a list.
np_array(list) == [rows |-> list]

\* np.arange(start, stop, step) for integers and step >= 1
RECURSIVE arange(_, _, _)
arange(start, stop, step) ==
    IF start >= stop THEN <<>>
    ELSE <<start>> \o arange(start + step, stop, step)

\* v.reshape(-1, 1): one row per entry
reshape_column(v) == [rows |-> [i \in 1..Len(v) |-> <<v[i]>>]]

\* The four lists and the loop variable `mesh` before the loop; `tags` notes
\* for which tag each row was appended, `raised` an exception in the loop.
NoRows ==
    [snapshots_x |-> <<>>, snapshots_y |-> <<>>, snapshots_z |-> <<>>,
     snapshots_stress |-> <<>>, mesh |-> None, tags |-> NoRowTags, raised |-> FALSE]

\* One pass of the dashboard loop body (lines 673-687): unpack six values,
\* append each one that is not None.
AppendPresent(acc, r, deltaT) ==
    IF Len(r) # 6 THEN [acc EXCEPT !.raised = TRUE]
    ELSE LET put(rows, k) == IF r[k] # None THEN Append(rows, r[k]) ELSE rows
             note(tags, k) == IF r[k] # None THEN Append(tags, deltaT) ELSE tags
         IN  [snapshots_x      |-> put(acc.snapshots_x, 1),
              snapshots_y      |-> put(acc.snapshots_y, 2),
              snapshots_z      |-> put(acc.snapshots_z, 3),
              snapshots_stress |-> put(acc.snapshots_stress, 4),
              mesh             |-> r[5],
              tags |-> [snapshots_x      |-> note(acc.tags.snapshots_x, 1),
                        snapshots_y      |-> note(acc.tags.snapshots_y, 2),
                        snapshots_z      |-> note(acc.tags.snapshots_z, 3),
                        snapshots_stress |-> note(acc.tags.snapshots_stress, 4)],
              raised |-> FALSE]

\* One pass of the file_read.py loop body (lines 22-31): unpack six values,
\* append all four.
AppendAll(acc, r, deltaT) ==
    IF Len(r) # 6 THEN [acc EXCEPT !.raised = TRUE]
    ELSE [snapshots_x      |-> Append(acc.snapshots_x, r[1]),
          snapshots_y      |-> Append(acc.snapshots_y, r[2]),
          snapshots_z      |-> Append(acc.snapshots_z, r[3]),
          snapshots_stress |-> Append(acc.snapshots_stress, r[4]),
          mesh             |-> r[5],
          tags |-> [snapshots_x      |-> Append(acc.tags.snapshots_x, deltaT),
                    snapshots_y      |-> Append(acc.tags.snapshots_y, deltaT),
                    snapshots_z      |-> Append(acc.tags.snapshots_z, deltaT),
                    snapshots_stress |-> Append(acc.tags.snapshots_stress, deltaT)],
          raised |-> FALSE]

\* for i, deltaT in enumerate(deltats): ...  (streamlit_app.py 670-689)
RECURSIVE VTULoop(_, _, _, _, _)
VTULoop(names, can_read, tags, i, acc) ==
    IF i > Len(tags) \/ acc.raised THEN acc
    ELSE VTULoop(names, can_read, tags, i + 1,
                 AppendPresent(acc,
                               extract_displacement_components(names, can_read, tags[i]),
                               tags[i]))

\* for deltaT in deltats: ...  (file_read.py 21-31)
RECURSIVE FileReadLoop(_, _, _, _, _)
FileReadLoop(names, can_read, tags, i, acc) ==
    IF i > Len(tags) \/ acc.raised THEN acc
    ELSE FileReadLoop(names, can_read, tags, i + 1,
                      AppendAll(acc,
                                extract_displacement_components(names, can_read, tags[i]),
                                tags[i]))

\* Commit with the Z slot filled from the Y list (a copy-and-paste slip).
Commit_ZFromY(ss, acc, param_start, param_end, param_step) ==
    LET slot(f, g) == IF acc[f] # <<>> THEN np_array(acc[g]) ELSE ss[f]
    IN  [snapshots_x      |-> slot("snapshots_x", "snapshots_x"),
         snapshots_y      |-> slot("snapshots_y", "snapshots_y"),
         snapshots_z      |-> slot("snapshots_z", "snapshots_y"),
         snapshots_stress |-> slot("snapshots_stress", "snapshots_stress"),
         mesh_data        |-> IF acc.mesh # None THEN acc.mesh ELSE ss.mesh_data,
         param            |-> reshape_column(arange(param_start, param_end, param_step))]

\* streamlit_app.py 691-713: a slot is assigned when its list is not empty,
\* the mesh when it is not None, the parameter vector always.
Commit(ss, acc, param_start, param_end, param_step) ==
    LET slot(f) == IF acc[f] # <<>> THEN np_array(acc[f]) ELSE ss[f]
    IN  [snapshots_x      |-> slot("snapshots_x"),
         snapshots_y      |-> slot("snapshots_y"),
         snapshots_z      |-> slot("snapshots_z"),
         snapshots_stress |-> slot("snapshots_stress"),
         mesh_data        |-> IF acc.mesh # None THEN acc.mesh ELSE ss.mesh_data,
         param            |-> reshape_column(arange(param_start, param_end, param_step))]

\* The tags of the rows the slots hold after Commit.
CommitTags(old, acc) ==
    [f \in DOMAIN old |-> IF acc[f] # <<>> THEN acc.tags[f] ELSE old[f]]

\* has_data (lines 832-838)
has_data(ss) ==
    \/ ss.snapshots_x # None
    \/ ss.snapshots_y # None
    \/ ss.snapshots_z # None
    \/ ss.snapshots_stress # None
    \/ ss.param # None

\* clear_all_arrays (lines 515-525)
clear_all_arrays(ss) == NewSession

\* tempfile.NamedTemporaryFile(delete=False, suffix='.vtu') and the write
\* (lines 634-636): the file stays on disk under its path.
temp_file_path == "upload.vtu"

WriteTempFile(files) == files \cup {temp_file_path}

\* The cleanup left out.
Cleanup_NoUnlink(files, path) == files

\* finally: if os.path.exists(temp_file_path): os.unlink(temp_file_path)
\* (lines 746-749)
Cleanup(files, path) == IF path \in files THEN files \ {path} ELSE files

\* The slot a file name selects (lines 775-789), on the lower-case name.
\* A name is the sequence of its parts: "snapshots_", "stress", "param"
\* and single characters.
NpySlot(file_name) ==
    IF Contains(file_name, <<"snapshots_", "x">>) \/ Contains(file_name, <<"x">>)
        THEN "snapshots_x"
    ELSE IF Contains(file_name, <<"snapshots_", "y">>) \/ Contains(file_name, <<"y">>)
        THEN "snapshots_y"
    ELSE IF Contains(file_name, <<"snapshots_", "z">>) \/ Contains(file_name, <<"z">>)
        THEN "snapshots_z"
    ELSE IF Contains(file_name, <<"stress">>) THEN "snapshots_stress"
    ELSE IF Contains(file_name, <<"param">>) THEN "param"
    ELSE "unrecognised"

\* The name "save all data" writes a slot under (lines 944-968).
SavedAs(slot) ==
    IF slot = "snapshots_x" THEN <<"snapshots_", "x", ".", "n", "p", "y">>
    ELSE IF slot = "snapshots_y" THEN <<"snapshots_", "y", ".", "n", "p", "y">>
    ELSE IF slot = "snapshots_z" THEN <<"snapshots_", "z", ".", "n", "p", "y">>
    ELSE IF slot = "snapshots_stress" THEN <<"snapshots_", "stress", ".", "n", "p", "y">>
    ELSE <<"param", ".", "n", "p", "y">>

\* np.load(uploaded_file): the array saved in the file, known by the file.
np_load(file) == [rows |-> <<file.name>>]

\* for uploaded_file in uploaded_npy_files: ...  (lines 773-791): each file
\* is loaded and assigned to its slot before the next one is opened; an
\* exception of np.load leaves the loop (except at line 819).
RECURSIVE NPYLoop(_, _, _)
NPYLoop(ss, files, i) ==
    IF i > Len(files) THEN [ss |-> ss, raised |-> FALSE]
    ELSE IF ~files[i].can_load THEN [ss |-> ss, raised |-> TRUE]
    ELSE LET slot == NpySlot(files[i].name)
         IN  NPYLoop(IF slot = "unrecognised" THEN ss
                     ELSE [ss EXCEPT ![slot] = np_load(files[i])], files, i + 1)

\* file_read.py 33-39: what the script leaves in its globals.
FileReadGlobals(acc) ==
    IF acc.raised THEN [raised |-> TRUE]
    ELSE [raised           |-> FALSE,
          snapshots_x      |-> np_array(acc.snapshots_x),
          snapshots_y      |-> np_array(acc.snapshots_y),
          snapshots_z      |-> np_array(acc.snapshots_z),
          snapshots_stress |-> np_array(acc.snapshots_stress),
          param            |-> reshape_column(arange(-50, 90, 20))]

----------------------------------------------------------------------------
(* Error metrics: streamlit_app.py (prediction test, error map),           *)
(* ezyrb_test.py and Visualization.py.  Snapshots are vectors of integers; *)
(* a quotient a / b is kept exact as [num |-> a, den |-> b], and den = 0   *)
(* is numpy's division by zero (inf or nan).                               *)

Abs(x) == IF x < 0 THEN 0 - x ELSE x

RECURSIVE Sum(_)
Sum(v) == IF v = <<>> THEN 0 ELSE Head(v) + Sum(Tail(v))

Quot(a, b) == [num |-> a, den |-> b]

\* np.abs(v)
np_abs(v) == [i \in 1..Len(v) |-> Abs(v[i])]

\* np.abs(a - b)
np_abs_diff(a, b) == [i \in 1..Len(a) |-> Abs(a[i] - b[i])]

\* np.mean(v)
np_mean(v) == Quot(Sum(v), Len(v))

\* np.argmax(v): the first place of the maximum, counted from 0
np_argmax(v) ==
    (CHOOSE i \in 1..Len(v) :
        /\ \A j \in 1..Len(v) : v[j] <= v[i]
        /\ \A j \in 1..(i - 1) : v[j] < v[i]) - 1

\* x / m for an integer x and a quotient m
DivideBy(x, m) == Quot(x * m.den, m.num)

\* MaxErrorPoint with the error taken relative to the mean of the absolute
\* true values, as a fraction.
MaxErrorPoint_OverMean(true, predicted) ==
    LET error         == np_abs_diff(true, predicted)
        max_error_idx == np_argmax(error)
        max_error     == error[max_error_idx + 1]
    IN  [max_error_idx  |-> max_error_idx,
         max_error      |-> max_error,
         relative_error |-> DivideBy(max_error, np_mean(np_abs(true)))]

\* The maximum-error point of the prediction test (streamlit_app.py
\* 1371-1375 and 1486-1490, ezyrb_test.py 72-77).
MaxErrorPoint(true, predicted) ==
    LET error         == np_abs_diff(true, predicted)
        max_error_idx == np_argmax(error)
        max_error     == error[max_error_idx + 1]
    IN  [max_error_idx  |-> max_error_idx,
         max_error      |-> max_error,
         relative_error |-> Quot(max_error * 100, Abs(true[max_error_idx + 1]))]

\* The error field of the dashboard's error map (streamlit_app.py 2929-2938).
ErrorMapField(true_snapshot, predicted) ==
    LET mean_true == np_mean(np_abs(true_snapshot))
        abs_error == np_abs_diff(predicted, true_snapshot)
    IN  IF mean_true.num > 0
        THEN [i \in 1..Len(abs_error) |-> DivideBy(abs_error[i], mean_true)]
        ELSE [i \in 1..Len(abs_error) |-> Quot(abs_error[i], 1)]

\* The error field of Visualization.py (lines 89-92): the norm over the one
\* row of the predicted matrix, over the mean of the true snapshot.
VisualizationField(true_snapshot, predicted) ==
    LET mean_true_snapshot == np_mean(true_snapshot)
        norm == np_abs_diff(predicted, true_snapshot)
    IN  [i \in 1..Len(norm) |-> DivideBy(norm[i], mean_true_snapshot)]

----------------------------------------------------------------------------
(* streamlit_app.py: the display blocks of the result pages, which run on  *)
(* every run of the script that shows the page, and the plot gallery.      *)

\* n copies of x
Repeat(x, n) == [i \in 1..n |-> x]

\* The plot_info entries the prediction display appends (lines 1529-1716):
\* one per validation result in single-point mode, one in multi-point mode.
DisplayPrediction(r) ==
    IF r = None THEN <<>>
    ELSE IF r.validation_mode = "single"
        THEN Repeat("parameter_prediction_single", r.n_results)
    ELSE <<"parameter_prediction_multi">>

\* lines 1911-1962
DisplayKFold(r) == IF r = None THEN <<>> ELSE <<"kfold_validation">>

\* lines 2202-2353
DisplayCombined(r) == IF r = None THEN <<>> ELSE <<"combined_model_test">>

\* What one run of the script showing `page` appends to generated_plots:
\* both tabs of the prediction page run, then nothing else of the elif chain.
Display(page, slots) ==
    IF page = "prediction"
        THEN DisplayPrediction(slots.prediction_results)
                 \o DisplayKFold(slots.kfold_results)
    ELSE IF page = "combined" THEN DisplayCombined(slots.combined_test_results)
    ELSE <<>>

----------------------------------------------------------------------------
(* The threshold classes of the error map (streamlit_app.py 2940-2964,     *)
(* Visualization.py 93-102).  Errors are integers; a threshold is the real *)
(* number (a + b * sqrt(d)) / c with integers a, b >= 0, d >= 0, c > 0,    *)
(* so that mean + k * std is exact.  Rounding of floats is left out.       *)

Squares(v) == [i \in DOMAIN v |-> v[i] * v[i]]

\* x in its place in the ascending sequence s
RECURSIVE Insert(_, _)
Insert(x, s) ==
    IF s = <<>> THEN <<x>>
    ELSE IF x <= Head(s) THEN <<x>> \o s
    ELSE <<Head(s)>> \o Insert(x, Tail(s))

\* np.sort
RECURSIVE Sorted(_)
Sorted(v) == IF v = <<>> THEN <<>> ELSE Insert(Head(v), Sorted(Tail(v)))

\* np.mean(error) + k * np.std(error), k in tenths: with n entries of sum S,
\* std = sqrt(n * sum of squares - S * S) / n.
MeanPlusStd(error, tenths) ==
    LET n == Len(error)
        S == Sum(error)
    IN  [a |-> 10 * S, b |-> tenths, d |-> n * Sum(Squares(error)) - S * S,
         c |-> 10 * n]

\* np.percentile(error, q): linear interpolation between the two entries
\* around the rank q / 100 * (n - 1) of the sorted array.
np_percentile(error, q) ==
    LET v    == Sorted(error)
        n    == Len(v)
        rank == q * (n - 1)
        lo   == rank \div 100
        hi   == IF lo + 1 < n THEN lo + 1 ELSE lo
    IN  [a |-> 100 * v[lo + 1] + (rank % 100) * (v[hi + 1] - v[lo + 1]),
         b |-> 0, d |-> 0, c |-> 100]

\* The threshold of the chosen method (lines 2940-2946).
Threshold(error, method) ==
    IF method.name = "std" THEN MeanPlusStd(error, method.tenths)
    ELSE IF method.name = "percentile" THEN np_percentile(error, method.q)
    ELSE [a |-> method.num, b |-> 0, d |-> 0, c |-> method.den]

\* e > t
Greater(e, t) ==
    LET l == e * t.c - t.a
    IN  IF t.b = 0 \/ t.d = 0 THEN l > 0
        ELSE l > 0 /\ l * l > t.b * t.b * t.d

\* error >= threshold: the points on the threshold are high.
above_threshold_NotBelow(error, t) ==
    [i \in DOMAIN error |->
        LET l == error[i] * t.c - t.a
        IN  IF t.b = 0 \/ t.d = 0 THEN l >= 0
            ELSE l > 0 /\ l * l >= t.b * t.b * t.d]

\* above_threshold = error > threshold   (line 2955)
above_threshold(error, t) == [i \in DOMAIN error |-> Greater(error[i], t)]

\* np.zeros((n, 4))
np_zeros(n) == [i \in 1..n |-> <<0, 0, 0, 0>>]

\* colors[mask] = row
AssignWhere(array, mask, row) ==
    [i \in DOMAIN array |-> IF mask[i] THEN row ELSE array[i]]

\* ~mask
Invert(mask) == [i \in DOMAIN mask |-> ~mask[i]]

\* Lines 2955-2964 (Visualization.py 95-100): the RGBA array over the
\* n_points of the mesh.
ColorArray(n_points, mask, high, low) ==
    AssignWhere(AssignWhere(np_zeros(n_points), mask, high), Invert(mask), low)

----------------------------------------------------------------------------
(* The combined sweep (streamlit_app.py 2097-2200) and its recommendation  *)
(* (2321-2340).  A table is a function from (reduction, mapping) pairs.    *)

\* float('nan') and a measured value.
NaN == [nan |-> TRUE, value |-> 0]

Measured(x) == [nan |-> FALSE, value |-> x]

\* table[red_method][map_method] = value
Put(table, red_method, map_method, value) ==
    (<<red_method, map_method>> :> value) @@ table

\* Lines 2174-2175: the mean error and the fit time of a pair that ran.
RecordSuccess(pd, red_method, map_method, avg_error, fit_time) ==
    [errors    |-> Put(pd.errors, red_method, map_method, Measured(avg_error)),
     fit_times |-> Put(pd.fit_times, red_method, map_method, Measured(fit_time))]

\* The except clause filling the error table only.
RecordFailure_ErrorsOnly(pd, red_method, map_method) ==
    [errors    |-> Put(pd.errors, red_method, map_method, NaN),
     fit_times |-> pd.fit_times]

\* Lines 2177-2180: the except clause of one pair.
RecordFailure(pd, red_method, map_method) ==
    [errors    |-> Put(pd.errors, red_method, map_method, NaN),
     fit_times |-> Put(pd.fit_times, red_method, map_method, NaN)]

\* The k-th pair of the nested loops (lines 2122-2127), k from 0.
PairAt(selection, k) ==
    LET m == Len(selection.mapping_methods)
    IN  <<selection.reduction_methods[(k \div m) + 1],
          selection.mapping_methods[(k % m) + 1]>>

total_combinations(selection) ==
    Len(selection.reduction_methods) * Len(selection.mapping_methods)

\* min_error = float('inf')
Infinity == [inf |-> TRUE, value |-> 0]

\* not np.isnan(error) and error < min_error
Improves(error, min_error) ==
    /\ ~error.nan
    /\ min_error.inf \/ error.value < min_error.value

\* Lines 2322-2331: the loops over the stored method lists.
RECURSIVE BestFrom(_, _, _, _)
BestFrom(results, k, min_error, best) ==
    IF k >= total_combinations(results) THEN best
    ELSE LET pair   == PairAt(results, k)
             listed == pair \in DOMAIN results.performance_data.errors
             error  == results.performance_data.errors[pair]
         IN  IF listed /\ Improves(error, min_error)
             THEN BestFrom(results, k + 1, [inf |-> FALSE, value |-> error.value], pair)
             ELSE BestFrom(results, k + 1, min_error, best)

----------------------------------------------------------------------------
(* Mesh objects of the visualization page (streamlit_app.py 2356-2964).    *)
(* A mesh object has an identity; the heap gives each identity its points  *)
(* and its named arrays, so that two names for one object are told from    *)
(* two equal objects.                                                      *)

\* The identity of the next object created: the first one not in use.
NewId(h) ==
    CHOOSE i \in 1..(Cardinality(DOMAIN h) + 1) :
        /\ i \notin DOMAIN h
        /\ \A j \in 1..(i - 1) : j \in DOMAIN h

\* A new object with the given content.
Allocate(h, content) == [heap |-> (NewId(h) :> content) @@ h, id |-> NewId(h)]

\* mesh.copy() handing back the object it was called on.
copy_SameObject(h, id) == [heap |-> h, id |-> id]

\* mesh.copy(): a new object with the same points and arrays.
copy(h, id) == Allocate(h, h[id])

\* mesh[name] = value
SetArray(h, id, name, value) ==
    [h EXCEPT ![id] = [points |-> @.points, arrays |-> (name :> value) @@ @.arrays]]

\* np.column_stack((u, v, w))
column_stack(u, v, w) == [i \in DOMAIN u |-> <<u[i], v[i], w[i]>>]

\* np.sqrt(u**2 + v**2 + w**2), each entry kept as the number under the root
Magnitude(u, v, w) == [i \in DOMAIN u |-> [sqrt |-> u[i] * u[i] + v[i] * v[i] + w[i] * w[i]]]

\* mesh.warp_by_vector(name, factor=f): a new object with the points moved
warp_by_vector(h, id, name, f) ==
    LET m == h[id]
        moved == [i \in DOMAIN m.points |->
                    [k \in 1..3 |-> m.points[i][k] + f * m.arrays[name][i][k]]]
    IN  Allocate(h, [points |-> moved, arrays |-> m.arrays])

\* The objects still named once the script run is over.
Surviving(h, ref) == IF ref = None THEN <<>> ELSE [i \in {ref.object} |-> h[i]]

\* Lines 2444-2445: the original tab draws a copy.
OriginalMesh(h, session_mesh) == copy(h, session_mesh)

\* Lines 2658-2676: the deformation tab adds the displacement to a copy
\* and draws the copy warped.
DeformationMesh(h, session_mesh, u, v, w, deform_factor) ==
    LET mesh   == copy(h, session_mesh)
        h1     == SetArray(mesh.heap, mesh.id, "displacement", column_stack(u, v, w))
        h2     == SetArray(h1, mesh.id, "displacement_magnitude", Magnitude(u, v, w))
        warped == copy(h2, mesh.id)
    IN  warp_by_vector(warped.heap, warped.id, "displacement", deform_factor)

\* Lines 2948-2952: the error map tab adds the error to a copy.
ErrorMesh(h, session_mesh, error) ==
    LET mesh == copy(h, session_mesh)
    IN  [heap |-> SetArray(mesh.heap, mesh.id, "error", error), id |-> mesh.id]

----------------------------------------------------------------------------
(* streamlit_app.py: environment detection and the PyVista configuration   *)
(* of module initialisation.                                               *)

\* One name stands for the ten platform variables of cloud_indicators.
cloud_indicators == {"STREAMLIT_CLOUD"}

\* is_cloud_environment (lines 15-51).  `which Xvfb` is found (return code
\* 0), missing, or the subprocess call raises.
is_cloud_environment(h, environ) ==
    IF cloud_indicators \cap environ # {} THEN TRUE
    ELSE IF h.os_name = "posix" /\ "DISPLAY" \notin environ
        THEN IF h.xvfb = "raises" THEN TRUE
             ELSE IF h.xvfb = "found" THEN FALSE
             ELSE TRUE
    ELSE FALSE

\* The names lines 80-96 assign.
CloudSettings ==
    {"PYVISTA_OFF_SCREEN", "PYVISTA_USE_PANEL", "PYVISTA_JUPYTER_BACKEND",
     "MESA_GL_VERSION_OVERRIDE", "MESA_GLSL_VERSION_OVERRIDE", "QT_QPA_PLATFORM",
     "DISPLAY", "LIBGL_ALWAYS_INDIRECT", "LIBGL_ALWAYS_SOFTWARE",
     "QT_QPA_FONTDIR", "MPLBACKEND"}

\* configure_pyvista_for_cloud (lines 54-139): os.environ after the call.
configure_pyvista_for_cloud(h, environ) ==
    IF is_cloud_environment(h, environ) THEN environ \cup CloudSettings ELSE environ

----------------------------------------------------------------------------
(* streamlit_app.py, the visualization page: the rendering functions, the  *)
(* fallback chain create_cloud_friendly_plot and the handlers of the three *)
(* tabs.  An error message is a sequence of words; a mesh is known by its  *)
(* number of points and the scalar field drawn on it.                      *)

\* str.lower() over the words that occur in error messages
lower(msg) ==
    [i \in DOMAIN msg |-> CASE msg[i] = "libGL"   -> "libgl"
                            [] msg[i] = "DISPLAY" -> "display"
                            [] OTHER              -> msg[i]]

GraphicsKeywords == {"libxrender", "libgl", "display", "x11", "opengl"}

\* any(keyword in error_msg.lower() for keyword in [...])  (line 207)
IsGraphicsError(error_msg) ==
    \E keyword \in GraphicsKeywords : Contains(lower(error_msg), <<keyword>>)

\* What a rendering function hands back: a value, or an exception.
Return(image, method) == [raised |-> FALSE, image |-> image, method |-> method]

Raise(msg) == [raised |-> TRUE, msg |-> msg]

\* A screenshot or the bytes of a PNG: not empty.
Image == <<"pixels">>

\* numpy's message for .min() / .max() of an array without entries
ZeroSize == <<"zero-size", "array">>

\* create_pyvista_plot (lines 158-210).  `render_error` is the exception of
\* the off-screen plotter, None when it renders.
create_pyvista_plot(mesh, render_error) ==
    IF render_error = None THEN Return(Image, "PyVista 3D")
    ELSE IF IsGraphicsError(render_error)
         THEN Raise(<<"graphics library error (cloud):">> \o render_error)
         ELSE Raise(<<"PyVista rendering failed:">> \o render_error)

\* create_matplotlib_3d_plot (lines 212-260).  `plt_error` is the exception
\* of the plotting library, None when it draws; the axis limits take the
\* extremes of the points.
create_matplotlib_3d_plot(mesh, plt_error) ==
    IF plt_error # None THEN Raise(<<"Matplotlib 3D rendering failed:">> \o plt_error)
    ELSE IF mesh.n_points = 0 THEN Raise(<<"Matplotlib 3D rendering failed:">> \o ZeroSize)
    ELSE Return(Image, "Matplotlib 3D")

\* The last stage under the label of the stage before it.
create_2d_projection_plot_ScatterLabel(mesh, plt_error) ==
    IF plt_error # None THEN Raise(<<"2D projection rendering failed:">> \o plt_error)
    ELSE IF mesh.n_points = 0 THEN Raise(<<"2D projection rendering failed:">> \o ZeroSize)
    ELSE Return(Image, "Matplotlib 3D")

\* create_2d_projection_plot (lines 262-331); the statistics panel takes the
\* extremes of the points.
create_2d_projection_plot(mesh, plt_error) ==
    IF plt_error # None THEN Raise(<<"2D projection rendering failed:">> \o plt_error)
    ELSE IF mesh.n_points = 0 THEN Raise(<<"2D projection rendering failed:">> \o ZeroSize)
    ELSE Return(Image, "2D Projections")

Stages == <<"PyVista 3D", "Matplotlib 3D", "2D Projections">>

\* The chain with the last two stages in the opposite order.
create_cloud_friendly_plot_ProjectionFirst(stage, result) ==
    IF ~result.raised THEN "SUCCESS"
    ELSE CASE stage = "PyVista 3D"     -> "2D Projections"
           [] stage = "2D Projections" -> "Matplotlib 3D"
           [] stage = "Matplotlib 3D"  -> "FAILURE"

\* The chain without its last stage.
create_cloud_friendly_plot_TwoStages(stage, result) ==
    IF ~result.raised THEN "SUCCESS"
    ELSE CASE stage = "PyVista 3D"     -> "Matplotlib 3D"
           [] stage = "Matplotlib 3D"  -> "FAILURE"
           [] stage = "2D Projections" -> "FAILURE"

\* The chain falling back only on the errors create_pyvista_plot reports as
\* errors of the graphics library.
create_cloud_friendly_plot_GraphicsOnly(stage, result) ==
    IF ~result.raised THEN "SUCCESS"
    ELSE CASE stage = "PyVista 3D" ->
                  IF result.msg[1] = "graphics library error (cloud):"
                  THEN "Matplotlib 3D" ELSE "FAILURE"
           [] stage = "Matplotlib 3D"  -> "2D Projections"
           [] stage = "2D Projections" -> "FAILURE"

\* create_cloud_friendly_plot (lines 145-156): where the call stands after
\* `stage` has handed back `result`.  A value is returned at once; any
\* exception of a stage enters the next one, and the exception of the last
\* stage leaves the function.
create_cloud_friendly_plot(stage, result) ==
    IF ~result.raised THEN "SUCCESS"
    ELSE CASE stage = "PyVista 3D"     -> "Matplotlib 3D"
           [] stage = "Matplotlib 3D"  -> "2D Projections"
           [] stage = "2D Projections" -> "FAILURE"

\* The first branch of a tab's handler (lines 2456, 2678, 2966).
EntersInteractive(tab, viz_mode, cloud) ==
    IF tab = "original" THEN viz_mode = "interactive" /\ ~cloud
    ELSE viz_mode = "interactive"

\* The second branch of a tab's handler (lines 2534, 2788, 3072).
EntersStatic(viz_mode, cloud) == viz_mode = "static" \/ cloud

----------------------------------------------------------------------------
(* streamlit_app.py, the prediction page: the prediction test and the      *)
(* k-fold run.  Row indices count from 0 as in the code.                   *)

\* len(a) of a 2D array: its number of rows
rows(a) == Len(a.rows)

\* list(range(n))
range(n) == [i \in 1..n |-> i - 1]

\* The entries of a sequence, as a set.
Elements(s) == {s[i] : i \in DOMAIN s}

\* [i for i in indices if i not in removed]; list.remove for one index
Without(indices, removed) ==
    LET kept(i) == i \notin removed IN SelectSeq(indices, kept)

\* a[indices] raises IndexError unless every index is a row of a.
CanIndex(a, indices) == \A i \in DOMAIN indices : indices[i] < rows(a)

\* available_data (lines 1086-1094): the snapshot slots that hold data
available_data(ss) == {f \in Elements(SnapshotSlots) : ss[f] # None}

\* The slider of n and the test before the button (lines 1152-1158, 1275):
\* the slider offers 1..max_points-1 and the button shows only when as many
\* indices are selected as n says.
CanSubmit(n_validation, validation_indices, max_points) ==
    /\ 1 <= max_points - 1
    /\ n_validation \in 1..(max_points - 1)
    /\ Len(validation_indices) = n_validation

\* The rows a run trains on: all but the current validation index in the
\* single-point mode (lines 1299-1300), all but the validation indices in
\* the multi-point mode (line 1405).
training_indices(p, param_data, i) ==
    IF p.validation_mode = "single"
    THEN Without(range(rows(param_data)), {p.validation_indices[i]})
    ELSE Without(range(rows(param_data)), Elements(p.validation_indices))

\* The except clause inside the loop: the next validation point is tried.
OnException_NextPoint(p, i) ==
    IF p.page = "prediction" /\ p.validation_mode = "single" /\ i < p.n_validation
    THEN [pc |-> "prepare", iter |-> i + 1]
    ELSE [pc |-> "failed", iter |-> i]

\* Where a run stands after an exception in its try block: the except
\* clause is outside every loop (lines 1525-1526, 1906-1907).
OnException(p, i) == [pc |-> "failed", iter |-> i]

----------------------------------------------------------------------------
(* The extractor module on its own: a file and calls of its two functions. *)

MaxArrays == 2     \* arrays in a mesh file

\* Tags with a shared prefix (-5, -50), of both signs, and a decimal one.
TagTexts == <<  <<"-", "5">>, <<"-", "5", "0">>, <<"5">>, <<"0", ".", "5">>  >>

MarkerPhrases ==
    <<EnglishMarker.X, EnglishMarker.Y, EnglishMarker.Z, EnglishMarker.S,
      LocalizedMarker.X, LocalizedMarker.Y, LocalizedMarker.Z, LocalizedMarker.S>>

\* "<component phrase> deltaT=<tag>"
ArrayName(marker, tag) == <<marker, "deltaT=">> \o tag

\* The array names a file is built from, tag by tag.
ArrayNames(markers, tags) ==
    [k \in 1..(Len(markers) * Len(tags)) |->
        ArrayName(markers[((k - 1) % Len(markers)) + 1],
                  tags[((k - 1) \div Len(markers)) + 1])]

\* The strictly increasing index sequences over 1..n of length at most len.
RECURSIVE Picks(_, _)
Picks(n, len) ==
    IF len = 0 THEN {<<>>}
    ELSE LET shorter == Picks(n, len - 1)
             next(s) == {j \in 1..n : s = <<>> \/ j > s[Len(s)]}
         IN  shorter \cup UNION {{Append(s, k) : k \in next(s)} : s \in shorter}

Reverse(s) == [i \in 1..Len(s) |-> s[Len(s) + 1 - i]]

\* Files of at most len distinct arrays out of `all`, stored in the order of
\* `all` or in the opposite order.
FilesOf(all, len) ==
    LET pick(p) == [i \in 1..Len(p) |-> all[p[i]]]
    IN  UNION {{pick(p), Reverse(pick(p))} : p \in Picks(Len(all), len)}

Meshes == FilesOf(ArrayNames(MarkerPhrases, TagTexts), MaxArrays)

TagInputs == {TagTexts[i] : i \in DOMAIN TagTexts}

ImportIdle ==
    /\ session_state = NewSession
    /\ vtu = None
    /\ deltats = <<>>
    /\ status = "idle"
    /\ runs = 0
    /\ row_tags = NoRowTags
    /\ script = None
    /\ import_pc = "idle"
    /\ temp_files = {}

MetricIdle ==
    /\ validation_snapshot = <<>>
    /\ predicted_snapshot = <<>>
    /\ metric = [site |-> "none"]

Idle == [op |-> "none", deltaT |-> None]

\* The script has not started.
EnvIdle ==
    /\ host = [os_name |-> "nt", platform |-> "win32", xvfb |-> "missing"]
    /\ os_environ = {}
    /\ detected = <<>>

\* The session attributes the result pages test with hasattr, none set yet.
NoResults ==
    [prediction_results |-> None, kfold_results |-> None,
     combined_test_results |-> None]

\* A new session (line 507): no plots, no results, no run of a page yet.
GalleryIdle ==
    /\ result_slots = NoResults
    /\ generated_plots = <<>>
    /\ script_run = [page |-> "none", pressed |-> "none"]

\* Nothing imported, no prediction stored, no error map asked for.
StaleIdle ==
    /\ loaded = None
    /\ stored_prediction = None
    /\ error_field = None

\* No error map has been asked for.
ThresholdIdle ==
    /\ error_request = None
    /\ colors = None

\* The tables before the loop (lines 2108-2113).
NoPerformanceData == [errors |-> <<>>, fit_times |-> <<>>]

\* No sweep has been run.
SweepIdle ==
    /\ sweep_request = None
    /\ sweep_pc = "idle"
    /\ current_progress = 0
    /\ pair_log = <<>>
    /\ performance_data = NoPerformanceData
    /\ combined_test_results = None
    /\ best_combination = [shown |-> FALSE]

\* No mesh in the session (lines 509-510).
MeshIdle ==
    /\ heap = <<>>
    /\ mesh_data = None
    /\ viz_request = "none"
    /\ rendered = None

AfterSweepIdle == MeshIdle

AfterThresholdIdle == SweepIdle /\ AfterSweepIdle

AfterStaleIdle == ThresholdIdle /\ AfterThresholdIdle

AfterGalleryIdle == StaleIdle /\ AfterStaleIdle

OtherIdle == EnvIdle /\ GalleryIdle /\ AfterGalleryIdle

\* No visualization request has been made.
VizIdle ==
    /\ is_cloud = FALSE
    /\ request = None
    /\ pc = "idle"
    /\ chain = [site |-> "none", call |-> 0, result |-> None]
    /\ attempts = <<>>
    /\ shown = <<>>
    /\ notices = <<>>

\* No button of the prediction page has been pressed.
PredictIdle ==
    /\ press = None
    /\ run_pc = "idle"
    /\ iter = 0
    /\ calls = <<>>
    /\ run_error = "none"
    /\ run_notice = "none"
    /\ prediction_results = None

PagesIdle == VizIdle /\ PredictIdle

\* A file that cannot be opened shows no content.
InitExtract ==
    /\ \/ readable = TRUE /\ array_names \in Meshes
       \/ readable = FALSE /\ array_names = <<>>
    /\ call = Idle
    /\ ret = None
    /\ zh_scanned = FALSE
    /\ held = None
    /\ ImportIdle
    /\ MetricIdle
    /\ PagesIdle
    /\ OtherIdle

\* The call's outcome becomes observable; a tuple the caller kept from an
\* earlier call is now the older of two.
Returned(e) ==
    /\ ret' = e.ret
    /\ zh_scanned' = e.zh_scanned
    /\ held' = IF held = None THEN None ELSE [held EXCEPT !.later = TRUE]

CallExtract ==
    \E deltaT \in TagInputs :
        /\ call' = [op |-> "extract", deltaT |-> deltaT]
        /\ Returned(Extraction(array_names, readable, deltaT))
        /\ UNCHANGED <<array_names, readable, import_vars, metric_vars, page_vars, other_vars>>

CallList ==
    \E l \in list_available_deltats(array_names, readable) :
        /\ call' = [op |-> "list", deltaT |-> None]
        /\ Returned([ret |-> l, zh_scanned |-> FALSE])
        /\ UNCHANGED <<array_names, readable, import_vars, metric_vars, page_vars, other_vars>>

NextExtract == CallExtract \/ CallList

SpecExtract == InitExtract /\ [][NextExtract]_vars

----------------------------------------------------------------------------
(* Repeated calls of the extractor on one file, by a caller that keeps the *)
(* tuple of an earlier call (output_dir=None, visualize=False).            *)

\* Tags of which one is a prefix of the other.
RepeatTags == <<  <<"-", "5">>, <<"-", "5", "0">>  >>

RepeatMarkers ==
    <<EnglishMarker.X, EnglishMarker.Y, LocalizedMarker.X, LocalizedMarker.S>>

RepeatMeshes == FilesOf(ArrayNames(RepeatMarkers, RepeatTags), MaxArrays)

InitRepeat ==
    /\ \/ readable = TRUE /\ array_names \in RepeatMeshes
       \/ readable = FALSE /\ array_names = <<>>
    /\ call = Idle
    /\ ret = None
    /\ zh_scanned = FALSE
    /\ held = None
    /\ ImportIdle
    /\ MetricIdle
    /\ PagesIdle
    /\ OtherIdle

\* The caller binds the returned tuple (x, y, z, stress, mesh,
\* found_components = extract_displacement_components(...)) and holds it.
Keep ==
    /\ call.op = "extract"
    /\ held = None
    /\ held' = [deltaT |-> call.deltaT, ret |-> ret, later |-> FALSE]
    /\ UNCHANGED <<array_names, readable, call, ret, zh_scanned,
                   import_vars, metric_vars, page_vars, other_vars>>

NextRepeat == CallExtract \/ CallList \/ Keep

SpecRepeat == InitRepeat /\ [][NextRepeat]_vars

----------------------------------------------------------------------------
(* The import page of the dashboard, and the file_read.py script, over     *)
(* files of the English convention.                                        *)

MaxRuns == 1       \* import runs in one session

ImportTags == <<  <<"-", "5">>, <<"5">>  >>

\* The fields a file may hold for one tag.
FieldSets ==
    {{}, {"X"}, {"S"}, {"Y", "Z"}, {"Z", "S"}, {"X", "Y", "Z"}, {"X", "Y", "Z", "S"}}

\* The arrays of one tag, in the order X, Y, Z, S.
RECURSIVE TagArrays(_, _, _)
TagArrays(tag, fields, k) ==
    IF k > Len(Components) THEN <<>>
    ELSE (IF Components[k] \in fields
          THEN <<ArrayName(EnglishMarker[Components[k]], tag)>> ELSE <<>>)
         \o TagArrays(tag, fields, k + 1)

\* Files that hold, tag after tag, one of the field sets.
RECURSIVE FilesByTag(_)
FilesByTag(i) ==
    IF i > Len(ImportTags) THEN {<<>>}
    ELSE {TagArrays(ImportTags[i], fs, 1) \o rest :
              fs \in FieldSets, rest \in FilesByTag(i + 1)}

ImportFiles == FilesByTag(1)

\* The start, end and step inputs.
ParamInputs == {<<-50, 90, 20>>, <<-50, -10, 20>>, <<-50, -10, 40>>, <<0, 0, 1>>}

ExtractIdle ==
    /\ array_names = <<>>
    /\ readable = FALSE
    /\ call = Idle
    /\ ret = None
    /\ zh_scanned = FALSE
    /\ held = None

InitImport == ExtractIdle /\ ImportIdle /\ MetricIdle /\ PagesIdle /\ OtherIdle

\* The uploads: a file in VTU format, or one pv.read cannot open (whose
\* content is then of no account).
Uploads ==
    {[file |-> f, can_read |-> TRUE] : f \in ImportFiles}
        \cup {[file |-> <<>>, can_read |-> FALSE]}

\* What the dashboard computes from an upload up to the commit: the tags
\* discovered (line 641) and the lists the loop fills (lines 661-689).
\* Every extraction reads the file anew (pv.read in the extractor): a file
\* the listing could read may fail to be read again.
VTURuns ==
    UNION {{[file |-> u.file, deltats |-> t,
             acc |-> VTULoop(u.file, again, t, 1, NoRows)] :
                t \in list_available_deltats(u.file, u.can_read),
                again \in {u.can_read, FALSE}} : u \in Uploads}

\* The files of the saving convention, each loadable or not.
NpyNames ==
    {<<"snapshots_", "x", ".", "n", "p", "y">>,
     <<"snapshots_", "y", ".", "n", "p", "y">>,
     <<"snapshots_", "z", ".", "n", "p", "y">>,
     <<"snapshots_", "stress", ".", "n", "p", "y">>,
     <<"param", ".", "n", "p", "y">>}

NpyFiles == [name : NpyNames, can_load : BOOLEAN]

MaxNpyFiles == 2   \* files selected for one NPY load

\* The selections of files with distinct names, in the order of upload.
RECURSIVE Selections(_)
Selections(n) ==
    IF n = 0 THEN {<<>>}
    ELSE LET shorter == Selections(n - 1)
             fresh(sel) == {f \in NpyFiles : \A i \in DOMAIN sel : sel[i].name # f.name}
         IN  shorter \cup UNION {{Append(sel, f) : f \in fresh(sel)} : sel \in shorter}

NpyUploads == Selections(MaxNpyFiles) \ {<<>>}

\* What file_read.py computes from its file (lines 20-39).
FileReadRuns ==
    UNION {{[file |-> u.file, deltats |-> t,
             globals |-> FileReadGlobals(FileReadLoop(u.file, u.can_read, t, 1, NoRows))] :
                t \in list_available_deltats(u.file, u.can_read)} : u \in Uploads}

\* A run of the import page with an uploaded file begins: the upload is
\* written to a temporary file (lines 624-636).
WriteTemp ==
    /\ script = None
    /\ import_pc = "idle"
    /\ import_pc' = "try"
    /\ temp_files' = WriteTempFile(temp_files)
    /\ UNCHANGED <<other_vars, extractor_vars, metric_vars, page_vars,
                   session_state, vtu, deltats, status, runs, row_tags, script>>

\* The body of the try statement when the process button is not pressed:
\* the tags are listed and the inputs shown (lines 639-656); the session
\* keeps nothing of it.
ListVTU ==
    /\ import_pc = "try"
    /\ import_pc' = "finally"
    /\ UNCHANGED <<other_vars, extractor_vars, metric_vars, page_vars, session_state, vtu,
                   deltats, status, runs, row_tags, script, temp_files>>

\* The body of the try statement with the process button pressed
\* (lines 639-744).
ProcessVTU ==
    /\ import_pc = "try"
    /\ import_pc' = "finally"
    /\ runs < MaxRuns
    /\ \E run \in VTURuns : \E p \in ParamInputs :
           LET ok == run.deltats # <<>> /\ ~run.acc.raised
           IN  /\ vtu' = run.file
               /\ deltats' = run.deltats
               /\ runs' = runs + 1
               /\ status' = IF run.deltats = <<>> THEN "no_deltats"
                            ELSE IF run.acc.raised THEN "error"
                            ELSE "done"
               /\ session_state' =
                      IF ok THEN Commit(session_state, run.acc, p[1], p[2], p[3])
                      ELSE session_state
               /\ row_tags' = IF ok THEN CommitTags(row_tags, run.acc) ELSE row_tags
    /\ UNCHANGED <<other_vars, extractor_vars, metric_vars, page_vars, script, temp_files>>

\* The finally clause (lines 745-749); the run of the tab ends.
Finally ==
    /\ import_pc = "finally"
    /\ temp_files' = Cleanup(temp_files, temp_file_path)
    /\ import_pc' = "idle"
    /\ UNCHANGED <<other_vars, extractor_vars, metric_vars, page_vars,
                   session_state, vtu, deltats, status, runs, row_tags, script>>

\* The "load NPY data" button with the files selected (lines 771-820).
LoadNPY ==
    /\ script = None
    /\ import_pc = "idle"
    /\ runs < MaxRuns
    /\ \E files \in NpyUploads :
           LET loop == NPYLoop(session_state, files, 1)
           IN  /\ session_state' = loop.ss
               /\ status' = IF loop.raised THEN "npy_error" ELSE "npy_loaded"
               /\ row_tags' = [f \in DOMAIN row_tags |->
                                  IF loop.ss[f] = session_state[f] THEN row_tags[f]
                                  ELSE <<>>]
    /\ runs' = runs + 1
    /\ UNCHANGED <<other_vars, extractor_vars, metric_vars, page_vars,
                   vtu, deltats, script, import_pc, temp_files>>

\* The "clear all data" button (lines 860-867).
ClearAllData ==
    /\ script = None
    /\ import_pc = "idle"
    /\ has_data(session_state)
    /\ session_state' = clear_all_arrays(session_state)
    /\ row_tags' = NoRowTags
    /\ status' = "cleared"
    /\ UNCHANGED <<other_vars, extractor_vars, metric_vars, page_vars,
                   vtu, deltats, runs, script, import_pc, temp_files>>

\* One run of file_read.py, a program of its own.
RunFileRead ==
    /\ script = None
    /\ status = "idle"
    /\ import_pc = "idle"
    /\ \E run \in FileReadRuns :
           /\ vtu' = run.file
           /\ deltats' = run.deltats
           /\ script' = run.globals
    /\ UNCHANGED <<other_vars, extractor_vars, metric_vars, page_vars,
                   session_state, status, runs, row_tags, import_pc, temp_files>>

NextImport ==
    \/ WriteTemp
    \/ ListVTU
    \/ ProcessVTU
    \/ Finally
    \/ LoadNPY
    \/ ClearAllData
    \/ RunFileRead

SpecImport == InitImport /\ [][NextImport]_vars

----------------------------------------------------------------------------
(* The import page in a session that already holds an import: the file of  *)
(* that import had every field for every tag.                              *)

PriorFile ==
    TagArrays(ImportTags[1], {"X", "Y", "Z", "S"}, 1)
        \o TagArrays(ImportTags[2], {"X", "Y", "Z", "S"}, 1)

\* The lists the processing loop filled from that file.
PriorRows == VTULoop(PriorFile, TRUE, ImportTags, 1, NoRows)

\* The session after that file was processed with start -50, end -10,
\* step 20; the runs are counted from here on.
InitReimport ==
    /\ ExtractIdle
    /\ OtherIdle
    /\ MetricIdle
    /\ PagesIdle
    /\ session_state = Commit(NewSession, PriorRows, -50, -10, 20)
    /\ row_tags = CommitTags(NoRowTags, PriorRows)
    /\ vtu = PriorFile
    /\ deltats = ImportTags
    /\ status = "done"
    /\ runs = 0
    /\ script = None
    /\ import_pc = "idle"
    /\ temp_files = {}

\* The buttons of the import page (file_read.py is a program of its own).
NextReimport ==
    \/ WriteTemp
    \/ ListVTU
    \/ ProcessVTU
    \/ Finally
    \/ LoadNPY
    \/ ClearAllData

SpecReimport == InitReimport /\ [][NextReimport]_vars

----------------------------------------------------------------------------
(* The error computations over pairs of a true and a predicted snapshot.   *)

MaxPoints == 2     \* mesh points in a snapshot

SnapshotValues == {-2, 0, 2, 4}

RECURSIVE Vectors(_)
Vectors(n) ==
    IF n = 0 THEN {<<>>}
    ELSE {Append(v, x) : v \in Vectors(n - 1), x \in SnapshotValues}

\* Pairs of snapshots over the same mesh, and the pair of the worked example.
SnapshotPairs ==
    UNION {Vectors(n) \X Vectors(n) : n \in 1..MaxPoints}
        \cup {<< <<2, 4, 6>>, <<2, 5, 6>> >>}

InitMetrics ==
    /\ ExtractIdle
    /\ OtherIdle
    /\ ImportIdle
    /\ PagesIdle
    /\ \E pair \in SnapshotPairs :
           /\ validation_snapshot = pair[1]
           /\ predicted_snapshot = pair[2]
    /\ metric = [site |-> "none"]

\* The prediction test of the dashboard, single- or multi-point.
PredictionTest ==
    /\ metric' = [site |-> "prediction_test",
                  point |-> MaxErrorPoint(validation_snapshot, predicted_snapshot)]
    /\ UNCHANGED <<other_vars, extractor_vars, import_vars, page_vars,
                   validation_snapshot, predicted_snapshot>>

\* ezyrb_test.py
EzyrbTest ==
    /\ metric' = [site |-> "ezyrb_test",
                  point |-> MaxErrorPoint(validation_snapshot, predicted_snapshot)]
    /\ UNCHANGED <<other_vars, extractor_vars, import_vars, page_vars,
                   validation_snapshot, predicted_snapshot>>

\* The error map tab of the dashboard.
ErrorMap ==
    /\ metric' = [site |-> "error_map",
                  error |-> ErrorMapField(validation_snapshot, predicted_snapshot)]
    /\ UNCHANGED <<other_vars, extractor_vars, import_vars, page_vars,
                   validation_snapshot, predicted_snapshot>>

\* Visualization.py
VisualizationScript ==
    /\ metric' = [site |-> "visualization",
                  error |-> VisualizationField(validation_snapshot, predicted_snapshot)]
    /\ UNCHANGED <<other_vars, extractor_vars, import_vars, page_vars,
                   validation_snapshot, predicted_snapshot>>

NextMetrics == PredictionTest \/ EzyrbTest \/ ErrorMap \/ VisualizationScript

SpecMetrics == InitMetrics /\ [][NextMetrics]_vars

----------------------------------------------------------------------------
(* The visualization page: requests in the three tabs, served step by      *)
(* step.  Whether a rendering function raises is the environment's choice, *)
(* except where the mesh decides it.                                       *)

VizTabs == {"original", "deformation", "error"}

VizModes == {"interactive", "static"}

\* A mesh without points or with points, drawn plain or with a scalar field.
VizMeshes == [n_points : {0, 2}, scalars : {"none", "point_data"}]

\* The exceptions of the graphics stack and of the libraries.
ErrorTexts ==
    {<<"libGL", "error">>, <<"cannot", "open", "DISPLAY">>, <<"bad", "mesh">>}

\* What the environment makes of a rendering with pyvista, and of one with
\* the plotting library: None when it works.
Outcomes == {None} \cup ErrorTexts

PlotOutcomes == {None, <<"savefig", "failed">>}

NoChain == [site |-> "none", call |-> 0, result |-> None]

InitViz ==
    /\ ExtractIdle
    /\ OtherIdle
    /\ ImportIdle
    /\ MetricIdle
    /\ PredictIdle
    /\ is_cloud \in BOOLEAN
    /\ request = None
    /\ pc = "idle"
    /\ chain = NoChain
    /\ attempts = <<>>
    /\ shown = <<>>
    /\ notices = <<>>

Attempt(stage, result) ==
    [stage |-> stage, raised |-> result.raised, call |-> chain.call,
     msg |-> IF result.raised THEN result.msg ELSE None]

Notice(kind, about) == [kind |-> kind, about |-> about]

\* A call of create_cloud_friendly_plot begins.
StartChain(site) ==
    /\ pc' = Stages[1]
    /\ chain' = [site |-> site, call |-> chain.call + 1, result |-> None]

\* if viz_mode == "static" or is_cloud_environment(): ... ; the handler ends.
StaticPath(viz_mode) ==
    IF EntersStatic(viz_mode, is_cloud) THEN StartChain("static")
    ELSE pc' = "done" /\ UNCHANGED chain

\* The button of a tab is pressed.
Generate ==
    /\ pc \in {"idle", "done"}
    /\ \E tab \in VizTabs, viz_mode \in VizModes, mesh \in VizMeshes :
           /\ request' = [tab |-> tab, viz_mode |-> viz_mode, mesh |-> mesh]
           /\ IF EntersInteractive(tab, viz_mode, is_cloud)
              THEN pc' = "interactive" /\ chain' = NoChain
              ELSE IF EntersStatic(viz_mode, is_cloud)
                   THEN pc' = Stages[1]
                        /\ chain' = [site |-> "static", call |-> 1, result |-> None]
                   ELSE pc' = "done" /\ chain' = NoChain
    /\ attempts' = <<>>
    /\ shown' = <<>>
    /\ notices' = <<>>
    /\ UNCHANGED <<other_vars, extractor_vars, import_vars, metric_vars, predict_vars, is_cloud>>

\* create_safe_interactive_window runs the tab's plotter_func (lines 335-350):
\* pv.Plotter(window_size=...) and plotter.show().
InteractiveWindow ==
    /\ pc = "interactive"
    /\ \E e \in Outcomes :
           LET result == IF e = None THEN Return(None, "window") ELSE Raise(e)
           IN  /\ attempts' = Append(attempts, Attempt("interactive", result))
               /\ IF e = None THEN StaticPath(request.viz_mode)
                  ELSE IF request.tab = "original" THEN StartChain("fallback")
                  ELSE pc' = "offscreen" /\ UNCHANGED chain
    /\ UNCHANGED <<other_vars, extractor_vars, import_vars, metric_vars, predict_vars,
                   is_cloud, request, shown, notices>>

\* The fallback_func of the deformation and error tabs: an off-screen
\* plotter and a screenshot (lines 2727-2786, 3015-3070).
OffscreenFallback ==
    /\ pc = "offscreen"
    /\ \E e \in Outcomes :
           LET result == IF e = None THEN Return(Image, "static mode") ELSE Raise(e)
           IN  /\ attempts' = Append(attempts, Attempt("offscreen", result))
               /\ IF e = None
                  THEN /\ notices' = Append(notices, Notice("warning", "interactive"))
                       /\ shown' = Append(shown, "static mode")
                       /\ request' = request
                       /\ StaticPath(request.viz_mode)
                  ELSE /\ notices' = Append(notices, Notice("error", "interactive"))
                       /\ shown' = shown
                       /\ request' = [request EXCEPT !.viz_mode = "static"]
                       /\ StaticPath("static")
    /\ UNCHANGED <<other_vars, extractor_vars, import_vars, metric_vars, predict_vars, is_cloud>>

\* A stage of the chain runs and the chain moves on.
Staged(stage, result) ==
    /\ pc = stage
    /\ attempts' = Append(attempts, Attempt(stage, result))
    /\ chain' = [chain EXCEPT !.result = result]
    /\ pc' = create_cloud_friendly_plot(stage, result)
    /\ UNCHANGED <<other_vars, extractor_vars, import_vars, metric_vars, predict_vars,
                   is_cloud, request, shown, notices>>

Attempt3D ==
    \E e \in Outcomes : Staged("PyVista 3D", create_pyvista_plot(request.mesh, e))

AttemptScatter ==
    \E e \in PlotOutcomes : Staged("Matplotlib 3D", create_matplotlib_3d_plot(request.mesh, e))

AttemptProjection ==
    \E e \in PlotOutcomes : Staged("2D Projections", create_2d_projection_plot(request.mesh, e))

\* The chain was called by the static path of a tab (lines 2534-2562,
\* 2788-2808, 3072-3092): the image is displayed under the label of its
\* method, or the exception of the last stage is reported.
StaticPathEnds ==
    /\ pc \in {"SUCCESS", "FAILURE"}
    /\ chain.site = "static"
    /\ IF pc = "SUCCESS"
       THEN shown' = Append(shown, chain.result.method) /\ notices' = notices
       ELSE shown' = shown /\ notices' = Append(notices, Notice("error", "chain"))
    /\ pc' = "done"
    /\ UNCHANGED <<other_vars, extractor_vars, import_vars, metric_vars, predict_vars,
                   is_cloud, request, chain, attempts>>

\* The chain was called as the fallback_func of the original-mesh tab
\* (lines 361-367 and 2518-2532).
FallbackEnds ==
    /\ pc \in {"SUCCESS", "FAILURE"}
    /\ chain.site = "fallback"
    /\ notices' = Append(notices, Notice("warning", IF pc = "SUCCESS" THEN "interactive"
                                                    ELSE "chain"))
    /\ IF pc = "SUCCESS"
       THEN /\ shown' = Append(shown, chain.result.method)
            /\ request' = request
            /\ StaticPath(request.viz_mode)
       ELSE /\ shown' = shown
            /\ request' = [request EXCEPT !.viz_mode = "static"]
            /\ StaticPath("static")
    /\ UNCHANGED <<other_vars, extractor_vars, import_vars, metric_vars, predict_vars, is_cloud, attempts>>

\* The steps that serve a request.
Serve ==
    \/ InteractiveWindow
    \/ OffscreenFallback
    \/ Attempt3D
    \/ AttemptScatter
    \/ AttemptProjection
    \/ StaticPathEnds
    \/ FallbackEnds

NextViz == Generate \/ Serve

SpecViz == InitViz /\ [][NextViz]_vars

\* The rendering functions return or raise, and the script runs on.
SpecVizLive == SpecViz /\ WF_vars(Serve)

----------------------------------------------------------------------------
(* The result pages and the plot gallery over the runs of the script.      *)

MaxPlots == 3          \* entries of generated_plots
MaxResults == 2        \* validation results of one prediction test

ResultPages == {"prediction", "combined", "gallery", "import"}

\* The experiment buttons, by page.
Experiments ==
    [prediction |-> {"predict", "kfold"}, combined |-> {"sweep"},
     gallery |-> {}, import |-> {}]

\* The results a successful experiment stores.
Outcome(button) ==
    IF button = "predict"
    THEN {[validation_mode |-> "single", n_results |-> n] : n \in 1..MaxResults}
             \cup {[validation_mode |-> "multi", n_results |-> n] : n \in 1..MaxResults}
    ELSE {[done |-> TRUE]}

SlotOf(button) ==
    IF button = "predict" THEN "prediction_results"
    ELSE IF button = "kfold" THEN "kfold_results"
    ELSE "combined_test_results"

InitGallery ==
    /\ ExtractIdle
    /\ ImportIdle
    /\ MetricIdle
    /\ PagesIdle
    /\ EnvIdle
    /\ GalleryIdle
    /\ AfterGalleryIdle

\* One run of the script showing `page` with `pressed` the button that
\* caused it ("none" for any other interaction): the display blocks run
\* after the handler of the button.
Shows(page, pressed, slots) ==
    /\ Len(generated_plots) + Len(Display(page, slots)) <= MaxPlots
    /\ result_slots' = slots
    /\ generated_plots' = generated_plots \o Display(page, slots)
    /\ script_run' = [page |-> page, pressed |-> pressed]
    /\ UNCHANGED <<env_vars, after_gallery,
                   extractor_vars, import_vars, metric_vars, page_vars>>

\* An experiment button: the run stores its results, or raises and stores
\* nothing (lines 1275-1526, 1827-1907, 2090-2200).
RunExperiment ==
    \E page \in ResultPages : \E button \in Experiments[page] :
        \/ \E r \in Outcome(button) :
               Shows(page, button, [result_slots EXCEPT ![SlotOf(button)] = r])
        \/ Shows(page, button, result_slots)

\* The script runs again for the page without an experiment button pressed:
\* the page is selected, or a widget on it is changed.
Rerender == \E page \in ResultPages : Shows(page, "none", result_slots)

\* "clear all plots" on the gallery page (lines 3195-3199), then st.rerun()
\* shows the gallery page again.
ClearAllPlots ==
    /\ script_run.page = "gallery"
    /\ generated_plots # <<>>
    /\ generated_plots' = <<>>
    /\ script_run' = [page |-> "gallery", pressed |-> "clear"]
    /\ UNCHANGED <<result_slots, env_vars, after_gallery,
                   extractor_vars, import_vars, metric_vars, page_vars>>

NextGallery == RunExperiment \/ Rerender \/ ClearAllPlots

SpecGallery == InitGallery /\ [][NextGallery]_vars

----------------------------------------------------------------------------
(* Imports, prediction tests, "clear all data" and the error-map tab over  *)
(* one session.  An upload is known by its file and its mesh point count.  *)

SessionUploads ==
    {[file |-> "a.vtu", n_points |-> 2], [file |-> "b.vtu", n_points |-> 3],
     [file |-> "c.vtu", n_points |-> 2]}

InitSession ==
    /\ ExtractIdle
    /\ ImportIdle
    /\ MetricIdle
    /\ PagesIdle
    /\ OtherIdle

\* A VTU file is processed: the slots and mesh_data are those of the upload
\* (lines 691-713).
ImportUpload ==
    /\ \E u \in SessionUploads : loaded' = u
    /\ UNCHANGED <<stored_prediction, error_field, after_stale, env_vars, gallery_vars,
                   extractor_vars, import_vars, metric_vars, page_vars>>

\* A prediction test succeeds: prediction_results holds snapshots of the
\* loaded data (lines 1282-1511).
StorePrediction ==
    /\ loaded # None
    /\ stored_prediction' = loaded
    /\ UNCHANGED <<loaded, error_field, after_stale, env_vars, gallery_vars,
                   extractor_vars, import_vars, metric_vars, page_vars>>

\* "clear all data": clear_all_arrays (lines 515-525, 864-867).
ClearSession ==
    /\ loaded # None
    /\ loaded' = None
    /\ UNCHANGED <<stored_prediction, error_field, after_stale, env_vars, gallery_vars,
                   extractor_vars, import_vars, metric_vars, page_vars>>

\* "generate error map" (lines 2833-2938): with prediction_results set, the
\* error field is computed from the chosen result; mesh_data is read after.
ErrorMapTab ==
    /\ stored_prediction # None
    /\ error_field' = [length |-> stored_prediction.n_points,
                       result_of |-> stored_prediction.file,
                       mesh_data |-> loaded]
    /\ UNCHANGED <<loaded, stored_prediction, after_stale, env_vars, gallery_vars,
                   extractor_vars, import_vars, metric_vars, page_vars>>

NextSession == ImportUpload \/ StorePrediction \/ ClearSession \/ ErrorMapTab

SpecSession == InitSession /\ [][NextSession]_vars

----------------------------------------------------------------------------
(* The error map's colour array, in the dashboard and in Visualization.py. *)

ErrorValues == {0, 1, 2, 5}

\* The error fields of n points.
RECURSIVE ErrorFields(_)
ErrorFields(n) ==
    IF n = 0 THEN {<<>>}
    ELSE {Append(v, x) : v \in ErrorFields(n - 1), x \in ErrorValues}

\* The threshold settings: std_multiplier in tenths (slider 0.5 .. 3.0),
\* percentile (slider 50 .. 99), custom_threshold as a fraction.
ThresholdMethods ==
    {[name |-> "std", tenths |-> k] : k \in {5, 10, 30}}
        \cup {[name |-> "percentile", q |-> q] : q \in {50, 75, 99}}
        \cup {[name |-> "custom", num |-> x, den |-> y] : x \in {0, 1, 2}, y \in {1, 2}}

\* RGB in 255ths and opacity in hundredths: the colour pickers and sliders.
ClassColors ==
    {[high |-> <<255, 0, 0, 100>>, low |-> <<0, 0, 255, 30>>],
     [high |-> <<0, 0, 0, 0>>, low |-> <<0, 255, 0, 100>>]}

ErrorRequests ==
    {[error |-> e, method |-> m, high |-> c.high, low |-> c.low] :
        e \in UNION {ErrorFields(n) : n \in 1..MaxPoints},
        m \in ThresholdMethods, c \in ClassColors}

InitThreshold ==
    /\ ExtractIdle
    /\ ImportIdle
    /\ MetricIdle
    /\ PagesIdle
    /\ EnvIdle
    /\ GalleryIdle
    /\ StaleIdle
    /\ AfterThresholdIdle
    /\ error_request \in ErrorRequests
    /\ colors = None

\* "generate error map" (streamlit_app.py 2940-2964).
ErrorColors ==
    /\ colors = None
    /\ LET error == error_request.error
           threshold == Threshold(error, error_request.method)
       IN  colors' = [site |-> "streamlit_app",
                      threshold |-> threshold,
                      rows |-> ColorArray(Len(error), above_threshold(error, threshold),
                                          error_request.high, error_request.low)]
    /\ UNCHANGED <<error_request, after_threshold, env_vars, gallery_vars, stale_vars,
                   extractor_vars, import_vars, metric_vars, page_vars>>

\* Visualization.py 93-100: mean + 1 * std, red and nearly transparent blue.
VisualizationColors ==
    /\ colors = None
    /\ LET error == error_request.error
           threshold == MeanPlusStd(error, 10)
       IN  colors' = [site |-> "Visualization",
                      threshold |-> threshold,
                      rows |-> ColorArray(Len(error), above_threshold(error, threshold),
                                          <<255, 0, 0, 100>>, <<0, 0, 255, 1>>)]
    /\ UNCHANGED <<error_request, after_threshold, env_vars, gallery_vars, stale_vars,
                   extractor_vars, import_vars, metric_vars, page_vars>>

NextThreshold == ErrorColors \/ VisualizationColors

SpecThreshold == InitThreshold /\ [][NextThreshold]_vars

----------------------------------------------------------------------------
(* The combined sweep over the selected methods.                           *)

ReductionSelections == {<<"POD">>, <<"AE">>, <<"POD", "AE">>}

MappingSelections == {<<"RBF">>, <<"GPR">>, <<"RBF", "GPR">>, <<"GPR", "RBF">>}

\* What rom.fit() and rom.kfold_cv_error() do for a pair: raise, or give a
\* fit time and a mean error.
PairOutcomes ==
    {[raised |-> TRUE, avg_error |-> 0, fit_time |-> 0]}
        \cup {[raised |-> FALSE, avg_error |-> e, fit_time |-> 3] : e \in {1, 2}}

InitSweep ==
    /\ ExtractIdle
    /\ ImportIdle
    /\ MetricIdle
    /\ PagesIdle
    /\ EnvIdle
    /\ GalleryIdle
    /\ StaleIdle
    /\ ThresholdIdle
    /\ SweepIdle
    /\ AfterSweepIdle

\* The start button with both lists non-empty (lines 2096-2119); building
\* the database may raise, which ends the run (line 2199).
PressSweep ==
    /\ sweep_pc \in {"idle", "recommended", "failed"}
    /\ \E r \in ReductionSelections : \E m \in MappingSelections :
           sweep_request' = [reduction_methods |-> r, mapping_methods |-> m]
    /\ \E database \in {"built", "raises"} :
           sweep_pc' = IF database = "built" THEN "loop" ELSE "failed"
    /\ current_progress' = 0
    /\ pair_log' = <<>>
    /\ performance_data' = NoPerformanceData
    /\ UNCHANGED <<combined_test_results, best_combination, threshold_vars, after_sweep,
                   env_vars, gallery_vars, stale_vars,
                   extractor_vars, import_vars, metric_vars, page_vars>>

\* One pass of the inner loop (lines 2127-2183).
EvaluatePair ==
    /\ sweep_pc = "loop"
    /\ current_progress < total_combinations(sweep_request)
    /\ \E o \in PairOutcomes :
           LET pair == PairAt(sweep_request, current_progress)
           IN  /\ pair_log' = Append(pair_log, [pair |-> pair, outcome |-> o])
               /\ performance_data' =
                      IF o.raised
                      THEN RecordFailure(performance_data, pair[1], pair[2])
                      ELSE RecordSuccess(performance_data, pair[1], pair[2],
                                         o.avg_error, o.fit_time)
    /\ current_progress' = current_progress + 1
    /\ UNCHANGED <<sweep_request, sweep_pc, combined_test_results, best_combination,
                   threshold_vars, after_sweep, env_vars, gallery_vars, stale_vars,
                   extractor_vars, import_vars, metric_vars, page_vars>>

\* After the loops the tables go to the session (lines 2188-2194).
FinishSweep ==
    /\ sweep_pc = "loop"
    /\ current_progress = total_combinations(sweep_request)
    /\ combined_test_results' =
           [performance_data  |-> performance_data,
            reduction_methods |-> sweep_request.reduction_methods,
            mapping_methods   |-> sweep_request.mapping_methods]
    /\ sweep_pc' = "stored"
    /\ best_combination' = [shown |-> FALSE]
    /\ UNCHANGED <<sweep_request, current_progress, pair_log, performance_data,
                   threshold_vars, after_sweep, env_vars, gallery_vars, stale_vars,
                   extractor_vars, import_vars, metric_vars, page_vars>>

\* The results display recommends the best combination (lines 2321-2340).
Recommend ==
    /\ sweep_pc = "stored"
    /\ best_combination' =
           [shown |-> TRUE, pair |-> BestFrom(combined_test_results, 0, Infinity, None)]
    /\ sweep_pc' = "recommended"
    /\ UNCHANGED <<sweep_request, current_progress, pair_log, performance_data,
                   combined_test_results,
                   threshold_vars, after_sweep, env_vars, gallery_vars, stale_vars,
                   extractor_vars, import_vars, metric_vars, page_vars>>

NextSweep == PressSweep \/ EvaluatePair \/ FinishSweep \/ Recommend

SpecSweep == InitSweep /\ [][NextSweep]_vars

----------------------------------------------------------------------------
(* Visualization requests on the session mesh.                             *)

\* Point positions and point arrays of the uploaded meshes.
PointLists == {<<<<0, 0, 0>>, <<1, 0, 0>>>>, <<<<0, 0, 0>>, <<0, 2, 0>>>>}

PointArrays ==
    {<<>>, "X_component" :> <<1, 2>>, ("X_component" :> <<1, 2>>) @@ ("error" :> <<7, 7>>)}

SessionMeshes == {[points |-> p, arrays |-> a] : p \in PointLists, a \in PointArrays}

\* One snapshot row of a displacement slot, and an error field.
Displacements == {<<0, 0>>, <<0, 1>>}

PointErrors == {<<0, 1>>, <<2, 2>>}

DeformFactors == {1, 2}

InitMesh ==
    /\ ExtractIdle
    /\ ImportIdle
    /\ MetricIdle
    /\ PagesIdle
    /\ EnvIdle
    /\ GalleryIdle
    /\ StaleIdle
    /\ ThresholdIdle
    /\ SweepIdle
    /\ MeshIdle

\* The script run ends: the objects only it named are gone.
EndsWith(h, kind, drawn) ==
    /\ heap' = Surviving(h, mesh_data')
    /\ viz_request' = kind
    /\ rendered' = drawn
    /\ UNCHANGED <<sweep_vars, threshold_vars, env_vars, gallery_vars, stale_vars,
                   extractor_vars, import_vars, metric_vars, page_vars>>

\* A VTU import stores the mesh it read (line 703).
StoreMesh ==
    \E m \in SessionMeshes :
        LET made == Allocate(heap, m)
        IN  /\ mesh_data' = [object |-> made.id]
            /\ EndsWith(made.heap, "import", None)

\* clear_all_arrays (line 524).
ClearMesh ==
    /\ mesh_data # None
    /\ mesh_data' = None
    /\ EndsWith(heap, "clear", None)

\* The original tab's button (lines 2441-2445).
ShowOriginal ==
    /\ mesh_data # None
    /\ LET drawn == OriginalMesh(heap, mesh_data.object)
       IN  /\ UNCHANGED mesh_data
           /\ EndsWith(drawn.heap, "original", drawn.heap[drawn.id])

\* The deformation tab's button (lines 2652-2676).
ShowDeformation ==
    /\ mesh_data # None
    /\ \E u \in Displacements, v \in Displacements, f \in DeformFactors :
           LET drawn == DeformationMesh(heap, mesh_data.object, u, v, <<0, 0>>, f)
           IN  /\ UNCHANGED mesh_data
               /\ EndsWith(drawn.heap, "deformation", drawn.heap[drawn.id])

\* The error map tab's button (lines 2920-2952).
ShowErrorMap ==
    /\ mesh_data # None
    /\ \E error \in PointErrors :
           LET drawn == ErrorMesh(heap, mesh_data.object, error)
           IN  /\ UNCHANGED mesh_data
               /\ EndsWith(drawn.heap, "error_map", drawn.heap[drawn.id])

NextMesh == StoreMesh \/ ClearMesh \/ ShowOriginal \/ ShowDeformation \/ ShowErrorMap

SpecMesh == InitMesh /\ [][NextMesh]_vars

----------------------------------------------------------------------------
(* Environment detection over the script runs of one process.              *)

MaxDetections == 3     \* calls of is_cloud_environment in the process

\* os.name, sys.platform and the outcome of `which Xvfb`.
Hosts ==
    {h \in [os_name : {"posix", "nt"}, platform : {"linux", "darwin", "win32"},
            xvfb : {"found", "missing", "raises"}] :
        (h.os_name = "nt") = (h.platform = "win32")}

\* The names the process may start with, of those the detection reads.
StartNames == {"STREAMLIT_CLOUD", "DISPLAY", "SSH_CLIENT"}

InitEnv ==
    /\ ExtractIdle
    /\ ImportIdle
    /\ MetricIdle
    /\ PagesIdle
    /\ GalleryIdle
    /\ AfterGalleryIdle
    /\ host \in Hosts
    /\ os_environ \in SUBSET StartNames
    /\ detected = <<>>

\* A run of the script starts: configure_pyvista_for_cloud() at module
\* level (lines 371-372) detects the environment and configures PyVista.
ModuleInit ==
    /\ Len(detected) < MaxDetections
    /\ detected' = Append(detected, is_cloud_environment(host, os_environ))
    /\ os_environ' = configure_pyvista_for_cloud(host, os_environ)
    /\ UNCHANGED <<host, gallery_vars, after_gallery,
                   extractor_vars, import_vars, metric_vars, page_vars>>

\* The page asks again (lines 2368, 2456, 2534, ...), in a run of the
\* script, so after the module level has run.
PageDetects ==
    /\ detected # <<>>
    /\ Len(detected) < MaxDetections
    /\ detected' = Append(detected, is_cloud_environment(host, os_environ))
    /\ UNCHANGED <<host, os_environ, gallery_vars, after_gallery,
                   extractor_vars, import_vars, metric_vars, page_vars>>

NextEnv == ModuleInit \/ PageDetects

SpecEnv == InitEnv /\ [][NextEnv]_vars

----------------------------------------------------------------------------
(* The prediction page over sessions filled by a VTU import.               *)

MaxValidation == 2     \* validation indices selected for one run

PredictTags == <<  <<"-", "5">>, <<"5">>, <<"5", "0">>  >>

\* A file with the fields `fields` for the first n tags.
RECURSIVE TaggedFile(_, _, _)
TaggedFile(fields, n, i) ==
    IF i > n THEN <<>>
    ELSE TagArrays(PredictTags[i], fields, 1) \o TaggedFile(fields, n, i + 1)

\* Files with X displacement and stress for three tags, and for two.
PredictFiles == {TaggedFile({"X", "S"}, 3, 1), TaggedFile({"X", "S"}, 2, 1)}

\* Start, end and step inputs that make four parameter points, and three.
PredictParams == {<<-50, 30, 20>>, <<-50, 10, 20>>}

\* The sessions after one processed VTU file.
PredictSessions ==
    UNION {{Commit(NewSession, VTULoop(f, TRUE, t, 1, NoRows), p[1], p[2], p[3]) :
                t \in list_available_deltats(f, TRUE), p \in PredictParams} :
           f \in PredictFiles}

\* The selections of the multiselect: distinct indices below max_points, in
\* the order selected.
RECURSIVE IndexSelections(_, _)
IndexSelections(max_points, len) ==
    IF len = 0 THEN {<<>>}
    ELSE LET shorter == IndexSelections(max_points, len - 1)
             fresh(sel) == {k \in 0..(max_points - 1) : k \notin Elements(sel)}
         IN  shorter \cup UNION {{Append(sel, k) : k \in fresh(sel)} : sel \in shorter}

\* Whether a call into the modelling library raises is the library's matter.
LibraryOutcomes == {"returns", "raises"}

InitPredict ==
    /\ ExtractIdle
    /\ OtherIdle
    /\ MetricIdle
    /\ VizIdle
    /\ PredictIdle
    /\ session_state \in PredictSessions
    /\ vtu = None
    /\ deltats = <<>>
    /\ status = "done"
    /\ runs = 1
    /\ row_tags = NoRowTags
    /\ script = None
    /\ import_pc = "idle"
    /\ temp_files = {}

Selected == session_state[press.snapshot_type]

Call(fn, outcome) == [fn |-> fn, raised |-> outcome = "raises", iter |-> iter]

\* An exception reaches the except clause: st.error shows it.
Excepted(kind) ==
    /\ run_error' = kind
    /\ run_notice' = "error"
    /\ run_pc' = OnException(press, iter).pc
    /\ iter' = OnException(press, iter).iter

Proceed(next) ==
    /\ run_pc' = next
    /\ UNCHANGED <<run_error, run_notice, iter>>

\* A call into the library, after which the run stands at `next`.
Calls(fn, next) ==
    \E outcome \in LibraryOutcomes :
        /\ calls' = Append(calls, Call(fn, outcome))
        /\ IF outcome = "raises" THEN Excepted("library") ELSE Proceed(next)

\* The button of the prediction test (lines 1275-1277).
PressPredict ==
    /\ run_pc \in {"idle", "stored", "failed"}
    /\ session_state.param # None
    /\ \E type \in available_data(session_state),
          validation_mode \in {"single", "multi"},
          n_validation \in 1..MaxValidation,
          validation_indices \in IndexSelections(rows(session_state.param), MaxValidation) :
           /\ CanSubmit(n_validation, validation_indices, rows(session_state.param))
           /\ press' = [page |-> "prediction", snapshot_type |-> type,
                        validation_mode |-> validation_mode,
                        n_validation |-> n_validation,
                        validation_indices |-> validation_indices]
    /\ run_pc' = "prepare"
    /\ iter' = 1
    /\ calls' = <<>>
    /\ run_error' = "none"
    /\ run_notice' = "none"
    /\ UNCHANGED <<other_vars, extractor_vars, import_vars, metric_vars, viz_vars, prediction_results>>

\* The button of the k-fold run (lines 1739-1747, 1827).
PressKFold ==
    /\ run_pc \in {"idle", "stored", "failed"}
    /\ session_state.param # None
    /\ \E type \in available_data(session_state),
          k_value \in 2..rows(session_state.param) :
           press' = [page |-> "kfold", snapshot_type |-> type, k_value |-> k_value]
    /\ run_pc' = "prepare"
    /\ iter' = 1
    /\ calls' = <<>>
    /\ run_error' = "none"
    /\ run_notice' = "none"
    /\ UNCHANGED <<other_vars, extractor_vars, import_vars, metric_vars, viz_vars, prediction_results>>

\* The rows of a run are taken and the database built (lines 1294-1304,
\* 1405-1412, 1830).
Prepare ==
    /\ run_pc = "prepare"
    /\ LET indexed ==
               \/ press.page = "kfold"
               \/ /\ press.validation_mode = "single"
                  /\ CanIndex(Selected, <<press.validation_indices[iter]>>)
                  /\ CanIndex(Selected, training_indices(press, session_state.param, iter))
               \/ /\ press.validation_mode = "multi"
                  /\ CanIndex(Selected, training_indices(press, session_state.param, iter))
       IN  IF indexed THEN Calls("Database", "fit")
           ELSE calls' = calls /\ Excepted("IndexError")
    /\ UNCHANGED <<other_vars, extractor_vars, import_vars, metric_vars, viz_vars,
                   press, prediction_results>>

\* rom.fit()  (lines 1363, 1468, 1886)
Fit ==
    /\ run_pc = "fit"
    /\ Calls("fit", IF press.page = "kfold" THEN "kfold_cv" ELSE "predict")
    /\ UNCHANGED <<other_vars, extractor_vars, import_vars, metric_vars, viz_vars,
                   press, prediction_results>>

\* rom.predict(...)  (lines 1367, 1472); in the single-point mode the loop
\* then turns to the next validation index.
Predict ==
    /\ run_pc = "predict"
    /\ \E outcome \in LibraryOutcomes :
           /\ calls' = Append(calls, Call("predict", outcome))
           /\ IF outcome = "raises" THEN Excepted("library")
              ELSE IF press.validation_mode = "multi" THEN Proceed("collect")
              ELSE IF iter < press.n_validation
                   THEN /\ run_pc' = "prepare"
                        /\ iter' = iter + 1
                        /\ UNCHANGED <<run_error, run_notice>>
                   ELSE Proceed("store")
    /\ UNCHANGED <<other_vars, extractor_vars, import_vars, metric_vars, viz_vars,
                   press, prediction_results>>

\* The result loop of the multi-point mode (lines 1476-1504).
Collect ==
    /\ run_pc = "collect"
    /\ IF CanIndex(Selected, press.validation_indices) THEN Proceed("store")
       ELSE Excepted("IndexError")
    /\ UNCHANGED <<other_vars, extractor_vars, import_vars, metric_vars, viz_vars,
                   press, calls, prediction_results>>

\* rom.kfold_cv_error(n_splits=k_value)  (line 1889)
KFoldCV ==
    /\ run_pc = "kfold_cv"
    /\ Calls("kfold_cv_error", "store")
    /\ UNCHANGED <<other_vars, extractor_vars, import_vars, metric_vars, viz_vars,
                   press, prediction_results>>

\* The results go to the session and st.success is shown (lines 1506-1523,
\* 1892-1904).
Store ==
    /\ run_pc = "store"
    /\ prediction_results' = [page |-> press.page, snapshot_type |-> press.snapshot_type]
    /\ run_pc' = "stored"
    /\ run_notice' = "success"
    /\ UNCHANGED <<other_vars, extractor_vars, import_vars, metric_vars, viz_vars,
                   press, iter, calls, run_error>>

NextPredict ==
    \/ PressPredict
    \/ PressKFold
    \/ Prepare
    \/ Fit
    \/ Predict
    \/ Collect
    \/ KFoldCV
    \/ Store

SpecPredict == InitPredict /\ [][NextPredict]_vars

----------------------------------------------------------------------------
(* Properties of the extractor module, checked under SpecExtract.          *)

\* The array names of the file, by place.
Places == 1..Len(array_names)

\* The tag an identifier carries: all of the signed decimal or signed
\* integer that follows "deltaT=".
FullTag(name) ==
    IF SearchGroup("pattern2", name) # None
    THEN SearchGroup("pattern2", name)
    ELSE SearchGroup("pattern1", name)

CarriesMarker(name, c) ==
    Contains(name, <<EnglishMarker[c]>>) \/ Contains(name, <<LocalizedMarker[c]>>)

IsLocalized(name) ==
    \E c \in DOMAIN LocalizedMarker : Contains(name, <<LocalizedMarker[c]>>)

NoDuplicates(l) == \A i, j \in 1..Len(l) : l[i] = l[j] => i = j

Extracted == call.op = "extract" /\ readable

Listed == call.op = "list" /\ readable

\* C1: for a tag T present in the mesh, what extract_displacement_components
\* returns under a component key (X, Y, Z, stress) is the array of an
\* identifier that carries that component's marker and whose tag is exactly
\* T; a key with no such identifier gets None.
C1_ExactTag ==
    (Extracted /\ \E i \in Places : FullTag(array_names[i]) = call.deltaT) =>
        \A k \in 1..4 :
            \/ ret[k] = None
            \/ \E i \in Places :
                    /\ CarriesMarker(array_names[i], Components[k])
                    /\ FullTag(array_names[i]) = call.deltaT
                    /\ ret[k] = <<i>>

\* C2: list_available_deltats returns a list without duplicates that is
\* ascending in the numeric value of its tags.
C2_SortedNumerically ==
    call.op = "list" =>
        /\ NoDuplicates(ret)
        /\ \A i, j \in 1..Len(ret) :
               i < j => FloatLeq(float(ret[i]), float(ret[j]))

\* C2 witness: a listing in which -50 comes before -5 (the order of the
\* strings is the opposite one).
C2_Witness ==
    /\ Listed
    /\ Len(ret) = 2
    /\ ret[1] = <<"-", "5", "0">>
    /\ ret[2] = <<"-", "5">>

\* C3: the tags list_available_deltats returns are exactly the full tags of
\* the identifiers, integer or decimal (deltaT=0.5 yields 0.5).
C3_FullTags ==
    Listed =>
        {ret[i] : i \in 1..Len(ret)}
            = {FullTag(array_names[i]) : i \in Places} \ {None}

\* Some identifier passes the English test of a displacement axis for tag T.
EnglishAxisMatched(T) ==
    \E i \in Places : \E c \in {"X", "Y", "Z"} :
        /\ Contains(array_names[i], <<EnglishMarker[c]>>)
        /\ Contains(array_names[i], <<"deltaT=">> \o T)

\* C4: the localized convention is scanned if and only if the English scan
\* matched none of X, Y, Z for the tag; when it matched one, no identifier
\* of the localized convention is returned for any component.
C4_FallbackOnlyWithoutEnglishAxis ==
    Extracted =>
        /\ zh_scanned <=> ~EnglishAxisMatched(call.deltaT)
        /\ EnglishAxisMatched(call.deltaT) =>
               \A c \in DOMAIN ret[6] : ~IsLocalized(ret[6][c])

\* C4 witness: an English axis matched while the file also holds a
\* localized identifier for the tag, and the second loop did not run.
C4_Witness ==
    /\ Extracted
    /\ EnglishAxisMatched(call.deltaT)
    /\ \E i \in Places : /\ IsLocalized(array_names[i])
                         /\ Contains(array_names[i], <<"deltaT=">> \o call.deltaT)
    /\ ~zh_scanned
    /\ DOMAIN ret[6] # {}

\* C5: when the file cannot be opened, the result has the six positions of
\* a successful one, with None in every data position.
C5_SixPositionsOnFailure ==
    (call.op = "extract" /\ ~readable) =>
        /\ Len(ret) = 6
        /\ \A k \in 1..4 : ret[k] = None

\* The last call extracted the tag of the held tuple again, after it was bound.
ExtractedAgain ==
    /\ held # None
    /\ held.later
    /\ call.op = "extract"
    /\ call.deltaT = held.deltaT

IsEnglishName(name) ==
    \E k \in DOMAIN Components : Contains(name, <<EnglishMarker[Components[k]]>>)

IsLocalizedName(name) ==
    \E k \in DOMAIN Components : Contains(name, <<LocalizedMarker[Components[k]]>>)

\* What the English scan of the last call matched.
EnglishMatches == ScanNames(array_names, 1, EnglishMarker, call.deltaT, <<>>)

\* C27: the identifiers one extraction matched are all of the English
\* convention or all of the localized one, and a component the English scan
\* matched keeps that match.
C27_SingleConvention ==
    (call.op = "extract" /\ Len(ret) = 6) =>
        /\ \/ \A c \in DOMAIN ret[6] : IsEnglishName(ret[6][c])
           \/ \A c \in DOMAIN ret[6] : IsLocalizedName(ret[6][c])
        /\ \A c \in DOMAIN EnglishMatches : ret[6][c] = EnglishMatches[c]

----------------------------------------------------------------------------
(* Properties of the snapshot assemblers, checked under SpecImport.        *)

Min(a, b) == IF a <= b THEN a ELSE b

\* The array the extractor returns for the i-th discovered tag of the file
\* of the last run, under the k-th component key.
ExtractedFor(i, k) == extract_displacement_components(vtu, TRUE, deltats[i])[k]

\* The file yields X, Y, Z and stress arrays for every discovered tag.
AllFieldsForAllTags ==
    \A i \in 1..Len(deltats) : \A k \in 1..4 : ExtractedFor(i, k) # None

\* One row per discovered tag, row i being the array extracted for tag i.
RowsInTagOrder(slots) ==
    \A k \in 1..4 :
        slots[SnapshotSlots[k]] =
            np_array([i \in 1..Len(deltats) |-> ExtractedFor(i, k)])

\* C6: given n discovered tags and a mesh with X, Y, Z and stress arrays for
\* every one of them, each field collection the assembler produces (the
\* dashboard's and file_read.py's) has exactly n rows, row i being the array
\* extracted for the i-th tag in discovery order.
C6_OneRowPerTagInOrder ==
    /\ (status = "done" /\ AllFieldsForAllTags) => RowsInTagOrder(session_state)
    /\ (script # None /\ deltats # <<>> /\ AllFieldsForAllTags) =>
           ~script.raised /\ RowsInTagOrder(script)

\* C6 witness: a dashboard import of a file with all four fields for the
\* two tags -5 and 5, each collection holding two rows.
C6_Witness ==
    /\ status = "done"
    /\ AllFieldsForAllTags
    /\ deltats = <<  <<"-", "5">>, <<"5">>  >>
    /\ Len(vtu) = 8
    /\ \A k \in 1..4 : Len(session_state[SnapshotSlots[k]].rows) = 2

\* C7: after the dashboard's snapshot assembly, row i of every field
\* collection belongs to the same tag, also when tags lack fields.
C7_RowsAligned ==
    status = "done" =>
        \A k, l \in 1..4 :
            LET a == row_tags[SnapshotSlots[k]]
                b == row_tags[SnapshotSlots[l]]
            IN  \A i \in 1..Min(Len(a), Len(b)) : a[i] = b[i]

\* C8: after a successful VTU import every loaded snapshot collection has
\* as many rows as the stored parameter vector has entries.
C8_RowsEqualParams ==
    status = "done" =>
        \A k \in 1..4 :
            session_state[SnapshotSlots[k]] # None =>
                Len(session_state[SnapshotSlots[k]].rows) = Len(session_state.param.rows)

\* C15: when a run of the import page with an uploaded VTU file has ended,
\* the temporary file written for the upload no longer exists, whether the
\* tags were found and extracted, none were found, or extraction raised.
C15_TempFileRemoved == import_pc = "idle" => temp_file_path \notin temp_files

\* A run whose extraction raised has ended, the file gone.
C15_Witness ==
    /\ import_pc = "idle"
    /\ status = "error"
    /\ runs > 0
    /\ temp_file_path \notin temp_files

\* The five data slots of the session.
DataSlots == {"snapshots_x", "snapshots_y", "snapshots_z", "snapshots_stress", "param"}

\* An import action (a VTU processing run or an NPY load) that failed.
ImportFailed ==
    /\ runs' = runs + 1
    /\ status' \in {"error", "no_deltats", "npy_error"}

\* C16: when an import action fails on an unreadable or malformed file, the
\* five data slots hold the same values as before the action.
C16_NoPartialCommit ==
    [][ImportFailed => \A f \in DataSlots : session_state'[f] = session_state[f]]_vars

\* The array of the file "save all data" wrote for the slot.
SavedArray(slot) == np_load([name |-> SavedAs(slot), can_load |-> TRUE])

\* C22: loading files saved by "save all data" through the NPY import puts
\* every array into the slot it was saved from: after a load of saved files
\* into an empty session, a slot that holds a saved array holds its own.
C22_SavedFilesRestoreOwnSlots ==
    (status = "npy_loaded" /\ runs = 1) =>
        \A f \in DataSlots : \A g \in DataSlots :
            session_state[f] = SavedArray(g) => f = g

\* What the processing loop extracts from the file of the last run.
FromLastFile == VTULoop(vtu, TRUE, deltats, 1, NoRows)

\* C23: after a VTU file has been processed successfully, every non-empty
\* snapshot slot and the stored mesh hold what was extracted from that file.
\* Checked under SpecReimport.
C23_SlotsFromLastFile ==
    status = "done" =>
        /\ \A k \in DOMAIN SnapshotSlots :
               LET f == SnapshotSlots[k]
               IN  session_state[f] # None =>
                       session_state[f] = np_array(FromLastFile[f])
        /\ session_state.mesh_data # None =>
               session_state.mesh_data = FromLastFile.mesh

----------------------------------------------------------------------------
(* Properties of the error metrics, checked under SpecMetrics.             *)

Points == 1..Len(validation_snapshot)

AbsError(i) == Abs(predicted_snapshot[i] - validation_snapshot[i])

SumAbsTrue == Sum([i \in Points |-> Abs(validation_snapshot[i])])

\* Two quotients stand for the same number (or are both a division by
\* zero of the same kind).
SameValue(a, b) ==
    IF a.den = 0 \/ b.den = 0
    THEN a.den = 0 /\ b.den = 0 /\ ((a.num = 0) <=> (b.num = 0))
    ELSE a.num * b.den = b.num * a.den

PredictionTested == metric.site \in {"prediction_test", "ezyrb_test"}

\* The reported index (counted from 0) maximises |predicted - true|.
ReportsMaxErrorIndex ==
    /\ metric.point.max_error_idx + 1 \in Points
    /\ \A j \in Points : AbsError(j) <= AbsError(metric.point.max_error_idx + 1)

C10_GuardedRelativeError ==
    metric.site \in {"error_map", "visualization"} =>
        \A i \in Points :
            /\ metric.error[i].den # 0
            /\ SameValue(metric.error[i],
                         IF SumAbsTrue > 0
                         THEN Quot(AbsError(i) * Len(validation_snapshot), SumAbsTrue)
                         ELSE Quot(AbsError(i), 1))

----------------------------------------------------------------------------
(* Properties of the visualization page, checked under SpecViz.            *)

IsStage(label) == \E k \in DOMAIN Stages : Stages[k] = label

IsChainAttempt(a, c) == a.call = c /\ IsStage(a.stage)

\* The stages call number c of create_cloud_friendly_plot has entered.
ChainAttempts(c) ==
    LET ofCall(a) == IsChainAttempt(a, c) IN SelectSeq(attempts, ofCall)

ChainCalls == 1..chain.call

AllRaised(t, n) == \A j \in 1..n : t[j].raised

\* C11: within one call of create_cloud_friendly_plot the stages are entered
\* in the order 3D render, 3D scatter, 2D projection; a stage is entered
\* only after every earlier stage has raised, and the first stage that
\* returns ends the call, so that no stage runs after a success.
C11_StagesInOrder ==
    \A c \in ChainCalls :
        LET t == ChainAttempts(c)
        IN  /\ Len(t) <= Len(Stages)
            /\ \A i \in DOMAIN t : t[i].stage = Stages[i] /\ AllRaised(t, i - 1)
            /\ (c = chain.call /\ IsStage(pc)) =>
                   AllRaised(t, Len(t)) /\ pc = Stages[Len(t) + 1]
            /\ (c = chain.call /\ pc = "SUCCESS") => ~t[Len(t)].raised

\* The scatter stage has ended a call after the 3D stage raised.
C11_Witness ==
    /\ pc = "SUCCESS"
    /\ Len(ChainAttempts(chain.call)) = 2
    /\ ChainAttempts(chain.call)[1].raised
    /\ ChainAttempts(chain.call)[2].stage = "Matplotlib 3D"

InChain == IsStage(pc)

Terminal == pc \in {"SUCCESS", "FAILURE"}

\* SUCCESS hands back an image and the label of the stage that made it.
SuccessIsLabelled ==
    pc = "SUCCESS" =>
        LET t == ChainAttempts(chain.call)
        IN  /\ ~chain.result.raised
            /\ chain.result.image # <<>>
            /\ chain.result.method = t[Len(t)].stage
            /\ ~t[Len(t)].raised

\* FAILURE only after all three stages raised.
FailureAfterAllRaised ==
    pc = "FAILURE" =>
        LET t == ChainAttempts(chain.call)
        IN  Len(t) = Len(Stages) /\ AllRaised(t, Len(t))

\* The caller of a failed chain shows a message about it.
FailureIsReported ==
    pc = "FAILURE" =>
        /\ Len(notices') = Len(notices) + 1
        /\ notices'[Len(notices')].about = "chain"
        /\ shown' = shown

\* C12: every call of the chain made for a visualization request ends in
\* SUCCESS or in FAILURE; SUCCESS hands back an image with the label of the
\* stage that produced it, FAILURE is reached only when all three stages
\* raised, and the caller then shows a message to the user.
C12_ReachesOneTerminal ==
    /\ InChain ~> Terminal
    /\ [](SuccessIsLabelled /\ FailureAfterAllRaised)
    /\ [][FailureIsReported]_vars

\* A request of the static path has ended with the error of a failed chain.
C12_Witness ==
    /\ pc = "done"
    /\ chain.site = "static"
    /\ Len(ChainAttempts(chain.call)) = 3
    /\ AllRaised(ChainAttempts(chain.call), 3)
    /\ notices # <<>>
    /\ notices[Len(notices)] = Notice("error", "chain")

ValidMesh == request # None /\ request.mesh.n_points > 0

\* The plotting library itself failed in this attempt.
LibraryFailed(a) == a.raised /\ Contains(a.msg, <<"savefig", "failed">>)

Original(msg) == Tail(msg)

\* C14 as stated: a stage-1 error whose message matches none of the
\* graphics-stack substrings is not followed by a 3D-scatter attempt.
C14_FallbackOnlyOnGraphicsErrors ==
    \A c \in ChainCalls :
        LET t == ChainAttempts(c)
        IN  (Len(t) >= 1 /\ t[1].raised /\ ~IsGraphicsError(Original(t[1].msg))) =>
                /\ Len(t) = 1
                /\ ~(c = chain.call /\ pc = "Matplotlib 3D")

\* C14 amended: every stage-1 error, matching or not, is followed by the
\* 3D-scatter attempt; the match decides only the prefix of the message
\* the 3D stage raises.
C14_FallbackOnAnyError ==
    \A c \in ChainCalls :
        LET t == ChainAttempts(c)
        IN  (Len(t) >= 1 /\ t[1].raised) =>
                /\ \/ Len(t) >= 2 /\ t[2].stage = "Matplotlib 3D"
                   \/ c = chain.call /\ Len(t) = 1 /\ pc = "Matplotlib 3D"
                /\ (t[1].msg[1] = "graphics library error (cloud):")
                       <=> IsGraphicsError(Original(t[1].msg))

\* The scatter stage was entered after an error that names no graphics
\* library.
C14_Witness ==
    /\ Len(ChainAttempts(chain.call)) >= 2
    /\ ChainAttempts(chain.call)[1].msg = <<"PyVista rendering failed:", "bad", "mesh">>
    /\ ChainAttempts(chain.call)[2].stage = "Matplotlib 3D"

\* C20: in a cloud environment a request in any tab goes straight to the
\* static path: no interactive window is tried, and at most one image is
\* displayed.
C20_CloudEntersStaticPath ==
    is_cloud =>
        /\ \A i \in DOMAIN attempts : attempts[i].stage # "interactive"
        /\ (attempts # <<>> => attempts[1].stage = "PyVista 3D")
        /\ Len(shown) <= 1

----------------------------------------------------------------------------
(* Properties of the prediction page, checked under SpecPredict.           *)

\* C17: when the library raises during the database build, fit, predict or
\* the k-fold evaluation, the exception is caught where the run was
\* started and st.error shows it, and no further call into the library is
\* made for that button press.
C17_NoCallAfterRaise ==
    /\ \A j \in 1..(Len(calls) - 1) : ~calls[j].raised
    /\ (calls # <<>> /\ calls[Len(calls)].raised) =>
           /\ run_pc = "failed"
           /\ run_error = "library"
           /\ run_notice = "error"

\* The second fit of a single-point run raised, and the run has stopped
\* with one validation index left.
C17_Witness ==
    /\ press # None
    /\ press.page = "prediction"
    /\ press.validation_mode = "single"
    /\ press.n_validation = 2
    /\ run_pc = "failed"
    /\ Len(calls) = 5
    /\ calls[5] = [fn |-> "fit", raised |-> TRUE, iter |-> 2]

\* The validation rows and the training rows of the run in hand.
RunIndices ==
    IF press.validation_mode = "single"
    THEN UNION {Elements(training_indices(press, session_state.param, i))
                    \cup {press.validation_indices[i]} : i \in 1..press.n_validation}
    ELSE Elements(training_indices(press, session_state.param, 1))
             \cup Elements(press.validation_indices)

\* C18: a prediction run is submitted only with n selected validation
\* indices, 1 <= n <= (parameter points - 1); its training set is not empty,
\* every validation and training index is a row of the parameter vector and
\* of the selected snapshot collection, and no IndexError is raised.
C18_SubmittedRunsIndexSafely ==
    (press # None /\ press.page = "prediction") =>
        /\ press.n_validation \in 1..(rows(session_state.param) - 1)
        /\ Len(press.validation_indices) = press.n_validation
        /\ \A i \in 1..press.n_validation :
               training_indices(press, session_state.param, i) # <<>>
        /\ \A k \in RunIndices : k < rows(session_state.param) /\ k < rows(Selected)
        /\ run_error # "IndexError"

----------------------------------------------------------------------------
(* Properties of environment detection, checked under SpecEnv.             *)

\* C24: once is_cloud_environment has returned true, every later call in
\* the process returns true too (the host and the names the process started
\* with do not change; only the script itself assigns os.environ).
C24_DetectionStable ==
    \A i \in DOMAIN detected : \A j \in DOMAIN detected :
        (i < j /\ detected[i]) => detected[j]

----------------------------------------------------------------------------
(* Properties of the plot gallery, checked under SpecGallery.              *)

\* C25: a run of the script without an experiment button pressed leaves
\* generated_plots unchanged (so that after "clear all plots" the gallery
\* stays empty until a new experiment is run).
C25_RerenderKeepsGallery ==
    [][script_run'.pressed = "none" => generated_plots' = generated_plots]_vars

----------------------------------------------------------------------------
(* Properties of stored results, checked under SpecSession.                *)

\* C26: whenever the error-map tab computes an error field from a stored
\* prediction result, the result was produced from the data loaded at that
\* moment: a mesh is held, it is the mesh of the result's upload, and the
\* field has one entry per point of it.
C26_ErrorFieldOfLoadedData ==
    error_field # None =>
        /\ error_field.mesh_data # None
        /\ error_field.result_of = error_field.mesh_data.file
        /\ error_field.length = error_field.mesh_data.n_points

----------------------------------------------------------------------------
(* Properties of the threshold classes, checked under SpecThreshold.       *)

\* The threshold the claim names for the request.
ClaimedThreshold ==
    IF colors.site = "Visualization" THEN MeanPlusStd(error_request.error, 10)
    ELSE Threshold(error_request.error, error_request.method)

\* The class colours of the request.
HighColor ==
    IF colors.site = "Visualization" THEN <<255, 0, 0, 100>> ELSE error_request.high

LowColor ==
    IF colors.site = "Visualization" THEN <<0, 0, 255, 1>> ELSE error_request.low

\* C28: every mesh point gets the colour of exactly one class: the high
\* colour when its error is strictly greater than the threshold, the low
\* colour otherwise.
C28_TwoClassesByThreshold ==
    colors # None =>
        /\ Len(colors.rows) = Len(error_request.error)
        /\ \A i \in DOMAIN colors.rows :
               colors.rows[i] =
                   IF Greater(error_request.error[i], ClaimedThreshold)
                   THEN HighColor ELSE LowColor

\* e = t
OnThreshold(e, t) ==
    LET l == e * t.c - t.a
    IN  IF t.b = 0 \/ t.d = 0 THEN l = 0
        ELSE l > 0 /\ l * l = t.b * t.b * t.d

\* A field with a point above the threshold and a point on it, coloured
\* high and low.
C28_Witness ==
    /\ colors # None
    /\ colors.site = "streamlit_app"
    /\ \E i \in DOMAIN colors.rows : colors.rows[i] = HighColor
    /\ \E i \in DOMAIN colors.rows :
           /\ colors.rows[i] = LowColor
           /\ OnThreshold(error_request.error[i], ClaimedThreshold)

----------------------------------------------------------------------------
(* Properties of the combined sweep.                                        *)

\* The pairs of the methods selected for the sweep.
SelectedPairs ==
    {<<sweep_request.reduction_methods[i], sweep_request.mapping_methods[j]>> :
        i \in DOMAIN sweep_request.reduction_methods,
        j \in DOMAIN sweep_request.mapping_methods}

\* The sweep has run through and its tables are the stored ones.
SweepFinished == sweep_pc \in {"stored", "recommended"}

\* What the library did for a pair, if the pair was tried.
TriedAs(pair) == {pair_log[i].outcome : i \in {k \in DOMAIN pair_log : pair_log[k].pair = pair}}

\* The stored tables hold for the pair what the library did.
EntryIsOutcome(pair) ==
    LET pd == combined_test_results.performance_data
    IN  /\ pair \in DOMAIN pd.errors
        /\ pair \in DOMAIN pd.fit_times
        /\ \E o \in TriedAs(pair) :
               IF o.raised
               THEN pd.errors[pair] = NaN /\ pd.fit_times[pair] = NaN
               ELSE /\ pd.errors[pair] = [nan |-> FALSE, value |-> o.avg_error]
                    /\ pd.fit_times[pair] = [nan |-> FALSE, value |-> o.fit_time]

\* The pairs whose stored error is a number.
NumberedPairs ==
    {pair \in SelectedPairs : ~combined_test_results.performance_data.errors[pair].nan}

\* The recommendation is a pair of smallest error, or none when no pair ran.
BestIsSmallest ==
    LET errors == combined_test_results.performance_data.errors
        best   == best_combination.pair
    IN  IF NumberedPairs = {}
        THEN best = None
        ELSE /\ best \in NumberedPairs
             /\ \A pair \in NumberedPairs : errors[best].value <= errors[pair].value

\* C29: when the combined sweep finishes, every selected (reduction,
\* mapping) pair has an entry in the error table and in the fit-time table,
\* the measured value when the pair ran and NaN when it raised; a pair that
\* raised does not stop the remaining pairs; and the recommended combination
\* is the pair of smallest non-NaN error, none when all pairs failed.
C29_SweepTablesComplete ==
    /\ SweepFinished => \A pair \in SelectedPairs : EntryIsOutcome(pair)
    /\ sweep_pc = "recommended" => best_combination.shown /\ BestIsSmallest

\* A finished sweep whose first pair raised and whose last pair is the
\* recommended one.
C29_Witness ==
    /\ sweep_pc = "recommended"
    /\ Len(pair_log) = 4
    /\ pair_log[1].outcome.raised
    /\ ~pair_log[4].outcome.raised
    /\ best_combination.pair = pair_log[4].pair

----------------------------------------------------------------------------
(* Properties of the visualization requests.                               *)

VisualizationRequests == {"original", "deformation", "error_map"}

\* C30: no visualization request changes the session mesh: each of the
\* three tabs works on a copy, so after the request the session mesh is the
\* same object with the same points and the same arrays.
C30_RequestsKeepSessionMesh ==
    [][viz_request' \in VisualizationRequests =>
          /\ mesh_data' = mesh_data
          /\ heap'[mesh_data'.object] = heap[mesh_data.object]]_vars

\* The error map tab has drawn a mesh with a new error array while the
\* session mesh still has its own arrays only.
C30_Witness ==
    /\ viz_request = "error_map"
    /\ "error" \in DOMAIN rendered.arrays
    /\ "error" \notin DOMAIN heap[mesh_data.object].arrays
    /\ rendered.points = heap[mesh_data.object].points

====
